---- MODULE Spec2Model ----
(***************************************************************************)
(* Handle / ownership model of the parasail Python binding                 *)
(* (parasail/bindings_v2.py): the Matrix, Profile, Result, Cigar and       *)
(* Sequences wrapper objects, the native allocations they wrap, the        *)
(* capability-gated Result accessors and the destructors.                  *)
(*                                                                         *)
(* The native library is outside the repository; it is modelled by its     *)
(* ABI: an allocating call returns a fresh allocation or NULL, a free call *)
(* releases the allocation it is given, is_X reads a flag bit.             *)
(***************************************************************************)
EXTENDS Integers, Sequences, FiniteSets, TLC

\* ---------------------------------------------------------------- bounds
MaxHandles == 3
MaxAlloc == 2
MaxLen == 2
MaxResults == 1
MaxSpare == 2
MaxDim == 2
MaxThreads == 2

\* ------------------------------------------------------------- pointers
NULL == 0
BuiltinPtr == -1
Ptrs == 1..MaxAlloc
AllPtrs == Ptrs \cup {NULL, BuiltinPtr}
\* Every operation can fill the first MaxHandles object slots; the MaxSpare
\* slots after them are filled only by the operations a specification lets.
ObjSlots == 1..MaxHandles
SpareSlots == (MaxHandles + 1)..(MaxHandles + MaxSpare)
Handles == ObjSlots \cup SpareSlots
Lens == 1..MaxLen

VARIABLES native, freeCalls, obj, lastOp, table, thr, setup

vars == <<native, freeCalls, obj, lastOp, table, thr, setup>>

\* ------------------------------------------------------------- threads
\* thr[t] is where thread t stands inside the binding function it is running:
\* pc its position, op the function, h the handle it was called with, p the
\* pointer a native call returned to it, seen what it read of the object and
\* ret the object it returns.
Threads == 1..MaxThreads

NoThread == [pc |-> "idle", op |-> "", h |-> 0, p |-> 0, seen |-> 0, ret |-> 0]

\* ------------------------------------------------------- score tables
\* matrix_t.matrix: size * size ints, here size = MaxDim for every matrix.
\* table[p] is the score table of the native matrix at p, all zero at first.
size == MaxDim

Cells == (0..(size - 1)) \X (0..(size - 1))

Blank == [c \in Cells |-> 0]

TablePtrs == Ptrs \cup {BuiltinPtr}

\* ------------------------------------------------------- native records
NoAlloc == [kind |-> "none", st |-> "unalloc", user |-> FALSE, flags |-> {}, n |-> 0, m |-> 0]

Freed(a) == [NoAlloc EXCEPT !.kind = a.kind, !.st = "freed"]

\* matrix_t.user_matrix as the destructor reads it: NULL for the built-in
\* tables, set for every matrix the library allocated.  ub is the value a read
\* of released memory yields.
user_matrix(nat, p, ub) ==
    IF p = BuiltinPtr THEN FALSE
    ELSE IF nat[p].st = "live" THEN nat[p].user
    ELSE ub

PtrState(nat, p) == IF p = NULL THEN "null" ELSE IF p = BuiltinPtr THEN "live" ELSE nat[p].st

HasFree(nat) == \E p \in Ptrs : nat[p].st = "unalloc"

Fresh(nat) == CHOOSE p \in Ptrs : nat[p].st = "unalloc" /\ \A q \in Ptrs : nat[q].st = "unalloc" => p <= q

\* What an allocating native call can return: a fresh allocation or NULL.
NativeReturns(nat) == IF HasFree(nat) THEN {Fresh(nat), NULL} ELSE {NULL}

\* n and m are the lengths the native call was given (s1Len, s2Len).
Alloc(nat, p, kind, user, flags, n, m) ==
    IF p = NULL THEN nat
    ELSE [nat EXCEPT ![p] = [kind |-> kind, st |-> "live", user |-> user, flags |-> flags, n |-> n, m |-> m]]

\* ------------------------------------------------------- handle objects
NoObj == [kind |-> "none", st |-> "none", pointer |-> NULL, origin |-> "none",
          held |-> FALSE, len_query |-> 0, len_ref |-> 0, seqs |-> FALSE,
          matrix |-> 0, cigar |-> 0, gets |-> 0, s1b |-> <<>>, elem |-> 0]

HasSlot(o) == \E h \in ObjSlots : o[h].st = "none"

NewHandle(o) == CHOOSE h \in ObjSlots : o[h].st = "none" /\ \A g \in ObjSlots : o[g].st = "none" => h <= g

HasSlotIn(o, slots) == \E h \in slots : o[h].st = "none"

NewHandleIn(o, slots) == CHOOSE h \in slots : o[h].st = "none" /\ \A g \in slots : o[g].st = "none" => h <= g

Alive(o, kind) == {h \in Handles : o[h].st = "alive" /\ o[h].kind = kind}

\* The record a destroyed object leaves behind: what it was and what it wrapped.
Dead(r) == [NoObj EXCEPT !.kind = r.kind, !.st = "dead", !.pointer = r.pointer, !.origin = r.origin]

FreeName(kind) ==
    CASE kind = "Matrix" -> "parasail_matrix_free"
      [] kind = "Profile" -> "parasail_profile_free"
      [] kind = "Result" -> "parasail_result_free"
      [] kind = "Cigar" -> "parasail_cigar_free"
      [] kind = "SSWResult" -> "parasail_result_ssw_free"
      [] OTHER -> "parasail_sequences_free"

\* Matrix.__del__: free only if the native user_matrix field is set.  A NULL
\* pointer makes self.pointer[0] raise inside __del__, so nothing is freed.
\* (a destructor that frees without looking at user_matrix)
MatrixDelFreesAlways(nat, p, ub) == TRUE

MatrixDelFrees(nat, p, ub) == p # NULL /\ user_matrix(nat, p, ub)

\* Result/Profile/Cigar/Sequences.__del__: "if _lib: free(self.pointer)".
\* Sequence defines no __del__.
HandleDelFrees(kind, nat, p, ub) ==
    IF kind = "Matrix" THEN MatrixDelFrees(nat, p, ub)
    ELSE IF kind = "Sequence" THEN FALSE
    ELSE TRUE

\* The native free: one more call on p; a live allocation becomes released
\* and its table is gone.
NativeFree(s, kind, p) ==
    [s EXCEPT !.fc = [s.fc EXCEPT ![p] = @ + 1],
              !.nat = IF p \in Ptrs /\ s.nat[p].st = "live"
                      THEN [s.nat EXCEPT ![p] = Freed(@)] ELSE s.nat,
              !.tab = IF p \in Ptrs THEN [s.tab EXCEPT ![p] = Blank] ELSE s.tab,
              !.calls = Append(s.calls, <<FreeName(kind), p>>)]

\* Objects nothing refers to any more: not held by the caller and not the
\* matrix or cached cigar of a live object.
Garbage(o) ==
    {h \in Handles : /\ o[h].st = "alive"
                     /\ ~o[h].held
                     /\ \A g \in Handles : o[g].st = "alive" => o[g].matrix # h /\ o[g].cigar # h}

Min(S) == CHOOSE x \in S : \A y \in S : x <= y

\* Reference-count destruction: run __del__ of each unreferenced object, then
\* release what it referred to, until nothing unreferenced is left.
RECURSIVE Collect(_, _)
Collect(s, ub) ==
    IF Garbage(s.obj) = {} THEN s
    ELSE LET h == Min(Garbage(s.obj))
             r == s.obj[h]
             s1 == IF HandleDelFrees(r.kind, s.nat, r.pointer, ub)
                   THEN NativeFree(s, r.kind, r.pointer) ELSE s
         IN Collect([s1 EXCEPT !.obj = [s1.obj EXCEPT ![h] = Dead(r)]], ub)

\* What the last operation was and did: the handle it made or acted on, its
\* argument (a name, a mode), how it ended, the native calls it made, and for a
\* read the flag word seen, the state of the pointer and each property's result.
Op(op, h, arg, outcome, flags, pst) ==
    [op |-> op, h |-> h, arg |-> arg, outcome |-> outcome, calls |-> <<>>,
     flags |-> flags, pst |-> pst, reads |-> <<>>, ret |-> 0, name |-> "", call |-> <<>>,
     key |-> <<>>, nreads |-> <<>>, elem |-> -1, writes |-> <<>>, p |-> NULL]

NoOp == Op("init", 0, "", "ok", {}, "none")

\* Commit the state s reached by a step that leaves the threads at th.
CommitThr(s, op, th) ==
    /\ native' = s.nat
    /\ table' = s.tab
    /\ freeCalls' = s.fc
    /\ obj' = s.obj
    /\ lastOp' = [op EXCEPT !.calls = s.calls]
    /\ thr' = th
    /\ setup' = setup

\* Commit the state s reached by an operation of the one caller.
Commit(s, op) == CommitThr(s, op, thr)

Now == [nat |-> native, fc |-> freeCalls, obj |-> obj, calls |-> <<>>, tab |-> table]

\* ------------------------------------------------------------- setup.py
\* setup is where a run of prepare_shared_lib stands, with the file system it
\* sees: files are the library files present in the directory parasail (entry:
\* those present when it was called), pkgdir says that parasail is a
\* directory, jsonLog and assetLog are the responses
\* of the attempts made so far by the two loops of download_windows_dll.
NoSetup ==
    [pc |-> "idle", system |-> "", files |-> {}, pkgdir |-> TRUE, entry |-> {},
     attempted |-> "none", jsonLog |-> <<>>, assetLog |-> <<>>, asset |-> "",
     unzipped |-> FALSE, copied |-> FALSE, checked |-> FALSE, outcome |-> ""]

\* ------------------------------------------------------------- Init
\* After import: the built-in Matrix constants exist (blosum62 stands for all
\* of them), each wrapping a static native table.
BuiltinConst == 1

Init ==
    /\ native = [p \in Ptrs |-> NoAlloc]
    /\ freeCalls = [p \in AllPtrs |-> 0]
    /\ obj = [h \in Handles |->
                IF h = BuiltinConst
                THEN [NoObj EXCEPT !.kind = "Matrix", !.st = "alive", !.pointer = BuiltinPtr,
                                   !.origin = "builtin", !.held = TRUE]
                ELSE NoObj]
    /\ lastOp = NoOp
    /\ table = [p \in TablePtrs |-> Blank]
    /\ thr = [t \in Threads |-> NoThread]
    /\ setup = NoSetup

\* Construct a handle object in the next slot.
Construct(s, r) == [s EXCEPT !.obj = [s.obj EXCEPT ![NewHandle(s.obj)] = r]]

MatrixObj(p, origin) ==
    [NoObj EXCEPT !.kind = "Matrix", !.st = "alive", !.pointer = p, !.origin = origin, !.held = TRUE]

\* --------------------------------------------------------------- strings
\* A Python value is a pair of its type and its content: a str is a sequence
\* of code points, a bytes object a sequence of byte values; 0 is NUL, 65 is
\* "A", 8364 is a code point outside latin-1.
NUL == 0
Str(v) == <<"str", v>>
Bytes(v) == <<"bytes", v>>
None == <<"None", <<>>>>
type(x) == x[1]
val(x) == x[2]

\* int, bool (a subclass of int) and float values
IntKey(k) == <<"int", k>>

BoolKey(k) == <<"bool", k>>

FloatKey(k) == <<"float", k>>

Strs(chars, lens) == {Str(v) : v \in UNION {[1..n -> chars] : n \in lens}}

\* "A" * n
As(n) == Str([i \in 1..n |-> 65])

len(x) == Len(val(x))

\* codecs.latin_1_encode raises UnicodeEncodeError on a code point above 255.
Encodable(x) == type(x) # "str" \/ \A i \in DOMAIN val(x) : val(x)[i] <= 255

\* b(x): a str is latin-1 encoded, anything else is returned as it is.
b(x) == IF type(x) = "str" THEN Bytes(val(x)) ELSE x

\* s(x): bytes are latin-1 decoded, anything else is returned as it is.
s(x) == IF type(x) = "bytes" THEN Str(val(x)) ELSE x

\* The number of bytes before the first NUL of a buffer.
RECURSIVE strlen(_)
strlen(v) == IF v = <<>> \/ Head(v) = NUL THEN 0 ELSE 1 + strlen(Tail(v))

\* Reading a c_char_p field: the bytes of the buffer up to its first NUL.
\* (a read that returns the whole buffer)
c_char_p_whole(buf) == Bytes(val(buf))

c_char_p(buf) == Bytes(SubSeq(val(buf), 1, strlen(val(buf))))

\* ---------------------------------------------------------------- Matrix
\* Matrix.__init__ with a string: what the constructor does with the result of
\* parasail_matrix_lookup, os.path.isfile and parasail_matrix_from_file.
\* Returns the pointer stored, or raised = TRUE.
\* (the constructor without its two raise statements)
MatrixInitNoRaise(looked, isfile, loaded) ==
    IF looked # NULL THEN [raised |-> FALSE, pointer |-> looked, calls |-> <<<<"parasail_matrix_lookup", NULL>>>>]
    ELSE IF isfile
         THEN [raised |-> FALSE, pointer |-> loaded,
               calls |-> <<<<"parasail_matrix_lookup", NULL>>, <<"parasail_matrix_from_file", NULL>>>>]
         ELSE [raised |-> FALSE, pointer |-> NULL, calls |-> <<<<"parasail_matrix_lookup", NULL>>>>]

\* (a constructor that opens a file of that name before asking the library)
MatrixInitFileFirst(looked, isfile, loaded) ==
    IF isfile
    THEN [raised |-> loaded = NULL, pointer |-> loaded,
          calls |-> <<<<"parasail_matrix_from_file", NULL>>>>]
    ELSE IF looked # NULL
    THEN [raised |-> FALSE, pointer |-> looked, calls |-> <<<<"parasail_matrix_lookup", NULL>>>>]
    ELSE [raised |-> TRUE, pointer |-> NULL, calls |-> <<<<"parasail_matrix_lookup", NULL>>>>]

MatrixInit(looked, isfile, loaded) ==
    IF looked # NULL THEN [raised |-> FALSE, pointer |-> looked, calls |-> <<<<"parasail_matrix_lookup", NULL>>>>]
    ELSE IF isfile
         THEN [raised |-> loaded = NULL, pointer |-> loaded,
               calls |-> <<<<"parasail_matrix_lookup", NULL>>, <<"parasail_matrix_from_file", NULL>>>>]
         ELSE [raised |-> TRUE, pointer |-> NULL, calls |-> <<<<"parasail_matrix_lookup", NULL>>>>]

\* The names a caller can pass: a built-in name, a built-in name that is also
\* the path of an existing file, a path of an existing file, a string that is
\* neither.
MatrixNames == {"blosum62", "pam10", "file", "missing"}

matrix_lookup(name) == IF name \in {"blosum62", "pam10"} THEN BuiltinPtr ELSE NULL

isfile(name) == name \in {"pam10", "file"}

\* Matrix(name)
MatrixFromString ==
    /\ HasSlot(obj)
    /\ \E name \in MatrixNames, loaded \in NativeReturns(native) :
         LET looked == matrix_lookup(name)
             r == MatrixInit(looked, isfile(name), loaded)
             used == \E i \in DOMAIN r.calls : r.calls[i][1] = "parasail_matrix_from_file"
             s0 == [Now EXCEPT !.calls = r.calls,
                               !.nat = IF used THEN Alloc(native, loaded, "Matrix", TRUE, {}, 0, 0) ELSE native]
             \* a constructor that raised leaves an object without a pointer
             \* attribute; its __del__ raises AttributeError and frees nothing
             s1 == IF r.raised THEN s0
                   ELSE Construct(s0, MatrixObj(r.pointer, IF used THEN "file" ELSE "lookup"))
         IN /\ (~used => loaded = NULL)
            /\ Commit(s1, Op("Matrix", IF r.raised THEN 0 ELSE NewHandle(obj), name,
                             IF r.raised THEN "ValueError" ELSE "ok", {},
                             IF used /\ loaded # NULL THEN "live" ELSE "null"))

\* Matrix(pointer): the constructor stores whatever pointer it is given, here
\* the pointer of an existing Matrix.
MatrixFromPointer ==
    /\ HasSlot(obj)
    /\ \E m \in Alive(obj, "Matrix") :
         /\ obj[m].held
         /\ Commit(Construct(Now, MatrixObj(obj[m].pointer, "dup")),
                   Op("Matrix", NewHandle(obj), "pointer", "ok", {}, "none"))

\* matrix_create(alphabet, match, mismatch)
matrix_create ==
    /\ HasSlot(obj)
    /\ \E p \in NativeReturns(native) :
         Commit(Construct([Now EXCEPT !.nat = Alloc(native, p, "Matrix", TRUE, {}, 0, 0),
                                      !.calls = <<<<"parasail_matrix_create", NULL>>>>],
                          MatrixObj(p, "create")),
                Op("matrix_create", NewHandle(obj), "", "ok", {}, "none"))

\* Matrix.copy()
MatrixCopy ==
    /\ HasSlot(obj)
    /\ \E m \in Alive(obj, "Matrix"), p \in NativeReturns(native) :
         /\ obj[m].held
         /\ Commit(Construct([Now EXCEPT !.nat = Alloc(native, p, "Matrix", TRUE, {}, 0, 0),
                                         !.calls = <<<<"parasail_matrix_copy", obj[m].pointer>>>>],
                             MatrixObj(p, "copy")),
                   Op("copy", NewHandle(obj), "", "ok", {}, "none"))

\* parasail_matrix_set_value(matrix, row, col, value) as the binding sees it:
\* the cell (row, col) of the table of the matrix it is given takes the value.
\* The tables of the built-in matrices belong to the library, which is not
\* part of the repository: whether it applies a write to one of them is its
\* choice (applied).  A write through a released pointer changes no table.
NativeSetValue(tab, nat, p, cell, v, applied) ==
    IF p = BuiltinPtr
    THEN IF applied THEN [tab EXCEPT ![p][cell] = v] ELSE tab
    ELSE IF p \in Ptrs /\ nat[p].st = "live" THEN [tab EXCEPT ![p][cell] = v]
    ELSE tab

\* The native calls of one operation writing the cells ws, in order.
RECURSIVE NativeSetValues(_, _, _, _, _, _)
NativeSetValues(tab, nat, p, ws, v, applied) ==
    IF ws = <<>> THEN tab
    ELSE NativeSetValues(NativeSetValue(tab, nat, p, Head(ws), v, applied), nat, p, Tail(ws), v, applied)

\* Python keys: slice(start, stop, step) with step 0 standing for None, and
\* tuples and lists of keys.
Slice(a, z, st) == <<"slice", <<a, z, st>>>>

Tuple(xs) == <<"tuple", xs>>

List(xs) == <<"list", xs>>

isslice(x) == type(x) = "slice"

\* range(start, stop, step) for a positive step
RECURSIVE range(_, _, _)
range(a, z, st) == IF a >= z THEN <<>> ELSE <<a>> \o range(a + st, z, st)

\* "range(key.start, key.stop, key.step or 1)"
SliceRange(sl) == range(val(sl)[1], val(sl)[2], IF val(sl)[3] = 0 THEN 1 ELSE val(sl)[3])

\* "for r in rs: for c in cs:" as the sequence of (r, c) it visits.
Nested(rs, cs) ==
    [i \in 1..(Len(rs) * Len(cs)) |-> <<rs[((i - 1) \div Len(cs)) + 1], cs[((i - 1) % Len(cs)) + 1]>>]

\* Matrix.__setitem__(key, value): how it ends and the cells it hands to
\* parasail_matrix_set_value, in order.  A slice key on its own reaches
\* "key[0].start", and a slice object cannot be subscripted: TypeError.
setitem(key) ==
    IF type(key) \in {"list", "tuple"}
    THEN LET k == val(key)
         IN IF Len(k) < 2 THEN [outcome |-> "IndexError", cells |-> <<>>]
            ELSE IF Len(k) > 2 THEN [outcome |-> "IndexError", cells |-> <<>>]
            ELSE IF isslice(k[1]) /\ isslice(k[2])
            THEN [outcome |-> "ok", cells |-> Nested(SliceRange(k[1]), SliceRange(k[2]))]
            ELSE IF isslice(k[1])
            THEN [outcome |-> "ok", cells |-> Nested(SliceRange(k[1]), <<val(k[2])>>)]
            ELSE IF isslice(k[2])
            THEN [outcome |-> "ok", cells |-> Nested(<<val(k[1])>>, SliceRange(k[2]))]
            ELSE [outcome |-> "ok", cells |-> <<<<val(k[1]), val(k[2])>>>>]
    ELSE IF isslice(key)
    THEN [outcome |-> "TypeError", cells |-> <<>>]
    ELSE [outcome |-> "ok", cells |-> Nested(<<val(key)>>, range(0, size, 1))]

\* One write operation through Matrix m: the calls it makes, the cells it
\* hands over (lastOp.writes) and what becomes of the tables.
MatrixWrite(op, m, key, r, v, applied) ==
    LET p == obj[m].pointer
    IN Commit([Now EXCEPT !.calls = [i \in DOMAIN r.cells |-> <<"parasail_matrix_set_value", p>>],
                          !.tab = NativeSetValues(table, native, p, r.cells, v, applied)],
              [Op(op, m, "", r.outcome, {}, PtrState(native, p)) EXCEPT
                 !.key = key, !.writes = r.cells, !.ret = v])

\* Matrix.set_value(row, col, value) on one of the handles hs
MatrixSetValue(hs, rows, cols, values) ==
    \E m \in Alive(obj, "Matrix") \cap hs, row \in rows, col \in cols, v \in values, applied \in BOOLEAN :
        /\ obj[m].held
        /\ obj[m].pointer # NULL
        /\ (obj[m].pointer # BuiltinPtr => applied)
        /\ MatrixWrite("set_value", m, Tuple(<<IntKey(row), IntKey(col)>>),
                       [outcome |-> "ok", cells |-> <<<<row, col>>>>], v, applied)

\* Matrix.__setitem__(key, value) on one of the handles hs
MatrixSetItem(hs, keys, values) ==
    \E m \in Alive(obj, "Matrix") \cap hs, key \in keys, v \in values, applied \in BOOLEAN :
        /\ obj[m].held
        /\ obj[m].pointer # NULL
        /\ (obj[m].pointer # BuiltinPtr => applied)
        /\ MatrixWrite("setitem", m, key, setitem(key), v, applied)

\* --------------------------------------------------------------- Profile
\* profile_create_{8,16,32,64,sat} and profile_create_stats_*: ten functions of
\* one shape, "s1b = b(s1); Profile(native(s1b, len(s1), matrix), matrix, s1b)".
\* The native profile holds s1Len and a pointer to the bytes of s1b.
profile_create(queries, slots) ==
    /\ HasSlotIn(obj, slots)
    /\ \E s1 \in queries, m \in Alive(obj, "Matrix"), p \in NativeReturns(native) :
         /\ obj[m].held
         /\ IF ~Encodable(s1)
            THEN /\ p = NULL
                 /\ Commit(Now, Op("profile_create", 0, "", "UnicodeEncodeError", {}, "none"))
            ELSE Commit([Now EXCEPT !.nat = Alloc(native, p, "Profile", FALSE, {}, len(s1), 0),
                                    !.calls = <<<<"parasail_profile_create", obj[m].pointer>>>>,
                                    !.obj = [obj EXCEPT ![NewHandleIn(obj, slots)] =
                                               [NoObj EXCEPT !.kind = "Profile", !.st = "alive", !.pointer = p,
                                                             !.origin = "profile_create", !.held = TRUE,
                                                             !.len_query = len(s1), !.matrix = m, !.s1b = b(s1)]]],
                        Op("profile_create", NewHandleIn(obj, slots), "", "ok", {}, "none"))

\* ---------------------------------------------------------------- Result
Caps == {"stats", "table", "rowcol", "trace"}
Flags == Caps \cup {"saturated"}

Modes == {"score", "table", "rowcol", "trace", "stats", "stats_table", "stats_rowcol"}

\* The capability bits the native kernel of a detail mode sets in result_t.flag.
ModeFlags(mode) ==
    CASE mode = "score" -> {}
      [] mode = "table" -> {"table"}
      [] mode = "rowcol" -> {"rowcol"}
      [] mode = "trace" -> {"trace"}
      [] mode = "stats" -> {"stats"}
      [] mode = "stats_table" -> {"stats", "table"}
      [] OTHER -> {"stats", "rowcol"}

\* Result.__init__(pointer, len_query, len_ref, query=None, ref=None, matrix=None);
\* a is the record of the constructor's arguments after the pointer.
ResultObj(p, a) ==
    [NoObj EXCEPT !.kind = "Result", !.st = "alive", !.pointer = p, !.origin = "dispatch",
                  !.held = TRUE, !.len_query = a.len_query, !.len_ref = a.len_ref,
                  !.seqs = (a.query # None /\ a.ref # None), !.matrix = a.matrix]

\* ------------------------------------------------ the dispatch functions
\* The generated functions: one per algorithm, detail mode and strategy
\* (scalar, scalar scan, and scan/striped/diag in five widths) in the
\* sequence-pair form, and scan/striped in five widths in the profile form.
Algs == {"nw", "sg", "sw"}

ModeToken(mode) == IF mode = "score" THEN "" ELSE "_" \o mode

Widths == {"_64", "_32", "_16", "_8", "_sat"}

PairStrategies == {"", "_scan"} \cup {st \o w : st \in {"_scan", "_striped", "_diag"}, w \in Widths}

ProfileStrategies == {st \o w : st \in {"_scan_profile", "_striped_profile"}, w \in Widths}

\* The native symbol the body of function a+mode+st calls.
\* (a body left calling the scalar kernel of its algorithm and mode)
SymbolScalar(a, mode, st) == "parasail_" \o a \o ModeToken(mode)

Symbol(a, mode, st) == "parasail_" \o a \o ModeToken(mode) \o st

\* The arguments each form hands to its native symbol, in order.
PairArgs == <<"b(s1)", "len(s1)", "b(s2)", "len(s2)", "open", "extend", "matrix">>

\* (a profile form that also passes the Matrix)
ProfileArgsWithMatrix == <<"profile", "b(s2)", "len(s2)", "open", "extend", "matrix">>

ProfileArgs == <<"profile", "b(s2)", "len(s2)", "open", "extend">>

DispatchFn(a, mode, st, form) ==
    [name |-> a \o ModeToken(mode) \o st, symbol |-> Symbol(a, mode, st), mode |-> mode,
     form |-> form, args |-> IF form = "pair" THEN PairArgs ELSE ProfileArgs]

\* The generated definitions, by their axis tokens: (algorithm, mode, strategy).
Generated == (Algs \X Modes \X PairStrategies) \cup (Algs \X Modes \X ProfileStrategies)

\* The body of a sequence-pair function (trace: of a trace mode): what it
\* hands to the native symbol and to Result (the gap costs are passed on as
\* they are).
\*   Result(native(b(s1), len(s1), b(s2), len(s2), open, extend, matrix),
\*          len(s1), len(s2)[, s1, s2, matrix])      (the last three for trace)
PairCall(trace, s1, s2, m) ==
    [native |-> [s1 |-> b(s1), s1Len |-> len(s1), s2 |-> b(s2), s2Len |-> len(s2), matrix |-> m],
     result |-> [len_query |-> len(s1), len_ref |-> len(s2),
                 query |-> IF trace THEN s1 ELSE None,
                 ref |-> IF trace THEN s2 ELSE None,
                 matrix |-> IF trace THEN m ELSE 0]]

\* Profile.s1: s(self.pointer[0].s1), a c_char_p read of the query bytes the
\* native profile points to.
profile_s1(s1b) == s(c_char_p(s1b))

\* The body of a profile function (trace: of a trace mode); prof is the Profile
\* object and s1Len the length its native profile was created with.
\*   Result(native(profile, b(s2), len(s2), open, extend),
\*          len(profile.s1), len(s2)[, profile.s1, s2, profile.matrix])
ProfileCall(trace, prof, s1Len, s2) ==
    [native |-> [s1 |-> prof.s1b, s1Len |-> s1Len, s2 |-> b(s2), s2Len |-> len(s2), matrix |-> prof.matrix],
     result |-> [len_query |-> len(profile_s1(prof.s1b)), len_ref |-> len(s2),
                 query |-> IF trace THEN profile_s1(prof.s1b) ELSE None,
                 ref |-> IF trace THEN s2 ELSE None,
                 matrix |-> IF trace THEN prof.matrix ELSE 0]]

Dispatched == {h \in Handles : obj[h].origin = "dispatch"}

\* A call of a sequence-pair function (of an algorithm, a detail mode and a
\* strategy from the sets given) with a query from queries and a reference of
\* a length from lens.
Dispatch(algs, modes, sts, queries, lens) ==
    /\ HasSlot(obj)
    /\ Cardinality(Dispatched) < MaxResults
    /\ \E a \in algs, mode \in modes, st \in sts, s1 \in queries, lr \in lens,
          m \in Alive(obj, "Matrix"), p \in NativeReturns(native), sat \in BOOLEAN :
         LET f == DispatchFn(a, mode, st, "pair")
             c == PairCall(mode = "trace", s1, As(lr), m)
         IN /\ obj[m].held
            /\ (sat => p # NULL)
            /\ IF ~Encodable(s1)
               THEN /\ p = NULL
                    /\ Commit(Now, [Op("dispatch", 0, f.mode, "UnicodeEncodeError", {}, "none")
                                      EXCEPT !.name = f.name])
               ELSE Commit(Construct([Now EXCEPT !.nat = Alloc(native, p, "Result", FALSE,
                                                       ModeFlags(f.mode) \cup (IF sat THEN {"saturated"} ELSE {}),
                                                       c.native.s1Len, c.native.s2Len),
                                                 !.calls = <<<<f.symbol, obj[m].pointer>>>>],
                                     ResultObj(p, c.result)),
                           [Op("dispatch", NewHandle(obj), f.mode, "ok", {}, "none")
                              EXCEPT !.name = f.name, !.call = [c EXCEPT !.native = [args |-> f.args] @@ @]])

\* A call of a profile function with a reference of a length from lens.
\* profile.s1 reads profile.pointer[0].s1, which raises on a NULL pointer; on
\* a profile already released the native call and the read see any length.
DispatchProfile(algs, modes, sts, lens) ==
    /\ HasSlot(obj)
    /\ Cardinality(Dispatched) < MaxResults
    /\ \E a \in algs, mode \in modes, st \in sts, lr \in lens, pr \in Alive(obj, "Profile"),
          p \in NativeReturns(native), sat \in BOOLEAN, ulen \in lens :
         LET f == DispatchFn(a, mode, st, "profile")
             pp == obj[pr].pointer
             live == pp # NULL /\ native[pp].st = "live"
             c0 == ProfileCall(mode = "trace", obj[pr], IF live THEN native[pp].n ELSE ulen, As(lr))
             c == IF live THEN c0
                  ELSE [c0 EXCEPT !.result.len_query = ulen,
                                  !.result.query = IF f.mode = "trace" THEN As(ulen) ELSE None]
         IN /\ obj[pr].held
            /\ (sat => p # NULL)
            /\ (live => ulen = Min(lens))
            /\ (pp = NULL => p = NULL /\ ulen = Min(lens))
            /\ IF pp = NULL
               THEN Commit([Now EXCEPT !.calls = <<<<f.symbol, pp>>>>],
                           [Op("dispatch_profile", 0, f.mode, "ValueError", {}, "null")
                              EXCEPT !.name = f.name])
               ELSE Commit(Construct([Now EXCEPT !.nat = Alloc(native, p, "Result", FALSE,
                                                               ModeFlags(f.mode) \cup (IF sat THEN {"saturated"} ELSE {}),
                                                               c.native.s1Len, c.native.s2Len),
                                                 !.calls = <<<<f.symbol, pp>>>>],
                                     ResultObj(p, c.result)),
                           [Op("dispatch_profile", NewHandle(obj), f.mode, "ok", {}, "none")
                              EXCEPT !.name = f.name,
                                     !.call = [c EXCEPT !.native = [args |-> f.args, profile |-> pr] @@ @]])

\* ------------------------------------------- dispatch calls in threads
\* A dispatch function run by a thread, in the order Python evaluates
\* "Result(native(args...), len(..), len(..))": the arguments of the native
\* call, the native call (ctypes releases the interpreter lock around it),
\* then the lengths and Result.__init__.  Other threads run in between.
\* form "pair" stands for nw (called with a Matrix), "profile" for
\* nw_scan_profile_64 (called with a Profile).
DispatchEnter(t, forms) ==
    /\ thr[t].pc = "idle"
    /\ \E form \in forms :
         \E h \in Alive(obj, IF form = "pair" THEN "Matrix" ELSE "Profile") :
           /\ obj[h].held
           /\ PtrState(native, obj[h].pointer) = "live"
           /\ thr' = [thr EXCEPT ![t] = [NoThread EXCEPT !.pc = "call", !.op = form, !.h = h]]
           /\ lastOp' = Op("enter", h, form, "ok", {}, "live")
           /\ UNCHANGED <<native, freeCalls, obj, table, setup>>

\* The native call of thread t returns: a fresh result, or NULL.
DispatchNative(t) ==
    /\ thr[t].pc = "call"
    /\ \E p \in NativeReturns(native) :
         LET f == DispatchFn("nw", "score", IF thr[t].op = "pair" THEN "" ELSE "_scan_profile_64", thr[t].op)
         IN /\ native' = Alloc(native, p, "Result", FALSE, {}, 1, 1)
            /\ thr' = [thr EXCEPT ![t].pc = "wrap", ![t].p = p]
            /\ lastOp' = [Op("native", thr[t].h, thr[t].op, "ok", {}, "live") EXCEPT
                            !.calls = <<<<f.symbol, obj[thr[t].h].pointer>>>>, !.name = f.name]
            /\ UNCHANGED <<freeCalls, obj, table, setup>>

\* Result(pointer, len(s1) or len(profile.s1), len(s2)) is constructed and
\* returned to the caller of thread t.
DispatchWrap(t) ==
    /\ thr[t].pc = "wrap"
    /\ HasSlotIn(obj, SpareSlots)
    /\ LET h == thr[t].h
           r == NewHandleIn(obj, SpareSlots)
           c == IF thr[t].op = "pair" THEN PairCall(FALSE, As(1), As(1), h)
                ELSE ProfileCall(FALSE, obj[h], native[obj[h].pointer].n, As(1))
       IN /\ obj' = [obj EXCEPT ![r] = ResultObj(thr[t].p, c.result)]
          /\ thr' = [thr EXCEPT ![t].pc = "done", ![t].ret = r]
          /\ lastOp' = Op("dispatch", r, thr[t].op, "ok", {}, "none")
          /\ UNCHANGED <<native, freeCalls, table, setup>>

\* nw_banded(s1, s2, open, extend, k, matrix): the band width k goes to the
\* native call between the gap costs and the Matrix.
BandedArgs == <<"b(s1)", "len(s1)", "b(s2)", "len(s2)", "open", "extend", "k", "matrix">>

nw_banded ==
    /\ HasSlot(obj)
    /\ Cardinality(Dispatched) < MaxResults
    /\ \E m \in Alive(obj, "Matrix"), p \in NativeReturns(native) :
         LET c == PairCall(FALSE, As(1), As(1), m)
         IN /\ obj[m].held
            /\ Commit(Construct([Now EXCEPT !.nat = Alloc(native, p, "Result", FALSE, {},
                                                          c.native.s1Len, c.native.s2Len),
                                            !.calls = <<<<"parasail_nw_banded", obj[m].pointer>>>>],
                                ResultObj(p, c.result)),
                      [Op("nw_banded", NewHandle(obj), "score", "ok", {}, "none")
                         EXCEPT !.name = "nw_banded", !.call = [c EXCEPT !.native = [args |-> BandedArgs] @@ @]])

\* SSWResult.__init__(pointer)
SSWResultObj(p) ==
    [NoObj EXCEPT !.kind = "SSWResult", !.st = "alive", !.pointer = p, !.origin = "ssw", !.held = TRUE]

\* The end of ssw and ssw_profile: "if pointer: return SSWResult(pointer)
\* else: return None".
SSWReturn(s0, p, op, name, args) ==
    IF p # NULL
    THEN Commit(Construct(s0, SSWResultObj(p)),
                [Op(op, NewHandle(obj), "", "ok", {}, "none")
                   EXCEPT !.name = name, !.call = [native |-> [args |-> args]]])
    ELSE Commit(s0, [Op(op, 0, "", "None", {}, "none")
                      EXCEPT !.name = name, !.call = [native |-> [args |-> args]]])

\* ssw(s1, s2, open, extend, matrix)
ssw ==
    /\ HasSlot(obj)
    /\ \E m \in Alive(obj, "Matrix"), p \in NativeReturns(native) :
         /\ obj[m].held
         /\ SSWReturn([Now EXCEPT !.nat = Alloc(native, p, "SSWResult", FALSE, {}, 1, 1),
                                  !.calls = <<<<"parasail_ssw", obj[m].pointer>>>>],
                      p, "ssw", "ssw", PairArgs)

\* ssw_profile(profile, s2, open, extend)
ssw_profile ==
    /\ HasSlot(obj)
    /\ \E pr \in Alive(obj, "Profile"), p \in NativeReturns(native) :
         /\ obj[pr].held
         /\ SSWReturn([Now EXCEPT !.nat = Alloc(native, p, "SSWResult", FALSE, {}, 1, 1),
                                  !.calls = <<<<"parasail_ssw_profile", obj[pr].pointer>>>>],
                      p, "ssw_profile", "ssw_profile", ProfileArgs)

\* Profile.__init__(self, pointer, matrix, s1b): three parameters, none with
\* a default value; a call with another number of arguments raises TypeError
\* before the body runs.
ProfileInitParams == <<"pointer", "matrix", "s1b">>

ProfileInitAccepts(args) == Len(args) = Len(ProfileInitParams)

\* "return Profile(_lib.parasail_ssw_init(b(s1), len(s1), matrix, score_size), matrix)"
SswInitArgs == <<"pointer", "matrix">>

\* ssw_init(s1, matrix, score_size): the native call is made first (it is an
\* argument of the constructor call), then Profile is called with what
\* ssw_init passes it.  lastOp.p is the pointer the native call returned.
ssw_init ==
    /\ HasSlot(obj)
    /\ \E m \in Alive(obj, "Matrix"), p \in NativeReturns(native) :
         LET s0 == [Now EXCEPT !.nat = Alloc(native, p, "Profile", FALSE, {}, 1, 0),
                               !.calls = <<<<"parasail_ssw_init", obj[m].pointer>>>>]
         IN /\ obj[m].held
            /\ IF ProfileInitAccepts(SswInitArgs)
               THEN Commit(Construct(s0, [NoObj EXCEPT !.kind = "Profile", !.st = "alive", !.pointer = p,
                                                       !.origin = "ssw_init", !.held = TRUE,
                                                       !.len_query = 1, !.matrix = m, !.s1b = b(As(1))]),
                           [Op("ssw_init", NewHandle(obj), "", "ok", {}, "none") EXCEPT !.p = p])
               ELSE Commit(s0, [Op("ssw_init", 0, "", "TypeError", {}, "none") EXCEPT !.p = p])

\* The native capability queries, on the flag word they read.
is_stats(flags) == "stats" \in flags
is_table(flags) == "table" \in flags
is_stats_table(flags) == "stats" \in flags /\ "table" \in flags
is_rowcol(flags) == "rowcol" \in flags
is_trace(flags) == "trace" \in flags
is_saturated(flags) == "saturated" \in flags

Scalars == {"matches", "similar", "length"}
StatsTables == {"matches_table", "similar_table", "length_table"}
Tables == {"score_table"} \cup StatsTables
Rows == {"score_row", "matches_row", "similar_row", "length_row"}
Cols == {"score_col", "matches_col", "similar_col", "length_col"}
Plain == {"score", "end_query", "end_ref"}
Accessors == {"saturated"} \cup Plain \cup Scalars \cup Tables \cup Rows \cup Cols

\* The check each Result property makes before it reads: TRUE when the
\* property raises AttributeError.
\* (matches, similar and length without their is_stats check)
RaisesUngatedStats(acc, flags) ==
    CASE acc \in Scalars -> FALSE
      [] acc = "score_table" -> ~is_table(flags) /\ ~is_stats_table(flags)
      [] acc \in StatsTables -> ~is_stats_table(flags)
      [] acc \in Rows \cup Cols -> ~is_rowcol(flags)
      [] OTHER -> FALSE

\* (saturated put behind the is_stats check)
RaisesGatedSaturated(acc, flags) ==
    CASE acc \in Scalars -> ~is_stats(flags)
      [] acc = "score_table" -> ~is_table(flags) /\ ~is_stats_table(flags)
      [] acc \in StatsTables -> ~is_stats_table(flags)
      [] acc \in Rows \cup Cols -> ~is_rowcol(flags)
      [] acc = "saturated" -> ~is_stats(flags)
      [] OTHER -> FALSE

Raises(acc, flags) ==
    CASE acc \in Scalars -> ~is_stats(flags)
      [] acc = "score_table" -> ~is_table(flags) /\ ~is_stats_table(flags)
      [] acc \in StatsTables -> ~is_stats_table(flags)
      [] acc \in Rows \cup Cols -> ~is_rowcol(flags)
      [] OTHER -> FALSE

\* The native calls a property makes: its capability queries, then (unless it
\* raised) its get accessor.  score, end_query and end_ref read pointer[0].
NativeCalls(acc, p, raised) ==
    LET query == CASE acc = "saturated" -> <<<<"parasail_result_is_saturated", p>>>>
                   [] acc \in Scalars -> <<<<"parasail_result_is_stats", p>>>>
                   [] acc = "score_table" -> <<<<"parasail_result_is_table", p>>, <<"parasail_result_is_stats_table", p>>>>
                   [] acc \in StatsTables -> <<<<"parasail_result_is_stats_table", p>>>>
                   [] acc \in Rows \cup Cols -> <<<<"parasail_result_is_rowcol", p>>>>
                   [] OTHER -> <<>>
    IN IF raised \/ acc \in Plain \cup {"saturated"} THEN query
       ELSE Append(query, <<"parasail_result_get", p>>)

\* The shape each array property passes to _make_nd_array.
\* (rows sized by len_query instead of len_ref)
ShapeRowsByQuery(acc, lq, lr) ==
    CASE acc \in Tables -> <<lq, lr>>
      [] acc \in Rows -> <<lq>>
      [] acc \in Cols -> <<lq>>
      [] OTHER -> <<>>

Shape(acc, lq, lr) ==
    CASE acc \in Tables -> <<lq, lr>>
      [] acc \in Rows -> <<lr>>
      [] acc \in Cols -> <<lq>>
      [] OTHER -> <<>>

RECURSIVE prod(_)
prod(shape) == IF shape = <<>> THEN 1 ELSE Head(shape) * prod(Tail(shape))

itemsize == 4

\* _make_nd_array: a view of exactly prod(shape) elements of itemsize bytes.
_make_nd_array(shape) == [shape |-> shape, nbytes |-> prod(shape) * itemsize]


\* One property read of a Result whose pointer is in state pst and whose flag
\* word reads as flags.  On a NULL pointer, pointer[0] raises ValueError and a
\* native call is undefined.
ReadProperty(acc, p, pst, flags, lq, lr) ==
    LET raised == Raises(acc, flags)
        isarray == acc \in Tables \cup Rows \cup Cols
        view == _make_nd_array(Shape(acc, lq, lr))
    IN IF pst = "null"
       THEN [outcome |-> IF acc \in Plain THEN "ValueError" ELSE "undefined",
             calls |-> NativeCalls(acc, p, TRUE), shape |-> <<>>, nbytes |-> 0]
       ELSE [outcome |-> IF raised THEN "AttributeError" ELSE "value",
             calls |-> NativeCalls(acc, p, raised),
             shape |-> IF raised \/ ~isarray THEN <<>> ELSE view.shape,
             nbytes |-> IF raised \/ ~isarray THEN 0 ELSE view.nbytes]

\* The caller reads the properties of Result h (every one of them, each read
\* on its own: a read changes nothing).  The flags are those of the native
\* result; a read through a pointer already released yields any flag word.
ReadResult ==
    \E h \in Alive(obj, "Result") :
      \E uflags \in (IF PtrState(native, obj[h].pointer) = "freed" THEN SUBSET Flags ELSE {{}}) :
        LET p == obj[h].pointer
            pst == PtrState(native, p)
            flags == IF pst = "live" THEN native[p].flags ELSE uflags
        IN /\ obj[h].held
           /\ native' = native /\ freeCalls' = freeCalls /\ obj' = obj /\ table' = table /\ thr' = thr
           /\ setup' = setup
           /\ lastOp' = [Op("read", h, "", "ok", flags, pst) EXCEPT
                           !.reads = [acc \in Accessors |->
                                        ReadProperty(acc, p, pst, flags, obj[h].len_query, obj[h].len_ref)]]

\* Result.cigar: gated by is_trace; the Cigar is built on first use and cached.
\* (a cigar property without its is_trace check)
CigarRaisesNever(flags) == FALSE

\* "if 0 == parasail_result_is_trace(self.pointer): raise AttributeError"
CigarRaises(flags) == ~is_trace(flags)

\* (a cigar property that builds a Cigar on every read)
CigarBuildsAlways(cached) == TRUE

\* "if self._cigar is None": 0 stands for None.
CigarBuilds(cached) == cached = 0

\* keep: the caller keeps a reference to the Cigar it is handed.  gets counts
\* the parasail_result_get_cigar calls made through the Result object; ret is
\* the Cigar object returned; slots is where the new Cigar object goes.
ResultCigar(slots) ==
    \E h \in Alive(obj, "Result"), p \in NativeReturns(native), keep \in BOOLEAN :
      \E uflags \in (IF PtrState(native, obj[h].pointer) = "freed" THEN SUBSET Flags ELSE {{}}) :
        LET rp == obj[h].pointer
            pst == PtrState(native, rp)
            flags == IF pst = "live" THEN native[rp].flags ELSE uflags
            build == CigarBuilds(obj[h].cigar)
        IN /\ obj[h].held
           /\ pst # "null"
           /\ IF CigarRaises(flags)
              THEN /\ p = NULL /\ ~keep
                   /\ Commit([Now EXCEPT !.calls = <<<<"parasail_result_is_trace", rp>>>>],
                             Op("cigar", h, "", "AttributeError", flags, pst))
              ELSE IF build
              THEN /\ HasSlotIn(obj, slots)
                   /\ LET c == NewHandleIn(obj, slots)
                          s0 == [Now EXCEPT !.nat = Alloc(native, p, "Cigar", FALSE, {}, 0, 0),
                                            !.calls = <<<<"parasail_result_is_trace", rp>>,
                                                        <<"parasail_result_get_cigar", rp>>>>]
                          s1 == [s0 EXCEPT !.obj = [s0.obj EXCEPT ![c] =
                                    [NoObj EXCEPT !.kind = "Cigar", !.st = "alive", !.pointer = p,
                                                  !.origin = "cigar", !.held = keep]]]
                      IN Commit([s1 EXCEPT !.obj = [s1.obj EXCEPT ![h].cigar = c, ![h].gets = @ + 1]],
                                [Op("cigar", h, "", "value", flags, pst) EXCEPT !.ret = c])
              ELSE /\ p = NULL
                   /\ Commit([Now EXCEPT !.calls = <<<<"parasail_result_is_trace", rp>>>>,
                                         !.obj = [obj EXCEPT ![obj[h].cigar].held = @ \/ keep]],
                             [Op("cigar", h, "", "value", flags, pst) EXCEPT !.ret = obj[h].cigar])

\* Result.cigar read by a thread, statement by statement; other threads run
\* in between (the interpreter switches threads between bytecodes, and ctypes
\* releases the interpreter lock around each native call).
\* "if 0 == _lib.parasail_result_is_trace(self.pointer): raise AttributeError"
CigarCheck(t) ==
    /\ thr[t].pc = "idle"
    /\ \E h \in Alive(obj, "Result") :
         LET rp == obj[h].pointer
             pst == PtrState(native, rp)
         IN /\ obj[h].held
            /\ pst = "live"
            /\ IF CigarRaises(native[rp].flags)
               THEN CommitThr([Now EXCEPT !.calls = <<<<"parasail_result_is_trace", rp>>>>],
                              Op("cigar", h, "", "AttributeError", native[rp].flags, pst),
                              [thr EXCEPT ![t] = [NoThread EXCEPT !.pc = "raised", !.op = "cigar", !.h = h]])
               ELSE CommitThr([Now EXCEPT !.calls = <<<<"parasail_result_is_trace", rp>>>>],
                              Op("cigar.check", h, "", "ok", native[rp].flags, pst),
                              [thr EXCEPT ![t] = [NoThread EXCEPT !.pc = "test", !.op = "cigar", !.h = h]])

\* "if self._cigar is None:"
CigarTest(t) ==
    /\ thr[t].pc = "test"
    /\ LET build == CigarBuilds(obj[thr[t].h].cigar)
       IN CommitThr(Now, Op("cigar.test", thr[t].h, "", "ok", {}, "live"),
                    [thr EXCEPT ![t].pc = IF build THEN "get" ELSE "return", ![t].seen = obj[thr[t].h].cigar])

\* "_lib.parasail_result_get_cigar(self.pointer, ...)"
CigarGet(t) ==
    /\ thr[t].pc = "get"
    /\ \E p \in NativeReturns(native) :
         LET h == thr[t].h
         IN CommitThr([Now EXCEPT !.nat = Alloc(native, p, "Cigar", FALSE, {}, 0, 0),
                                  !.calls = <<<<"parasail_result_get_cigar", obj[h].pointer>>>>,
                                  !.obj = [obj EXCEPT ![h].gets = @ + 1]],
                      Op("cigar.get", h, "", "ok", {}, "live"),
                      [thr EXCEPT ![t].pc = "store", ![t].p = p])

\* "self._cigar = Cigar(pointer)": the Cigar cached before, if any, loses the
\* reference of the Result and is destroyed unless a caller holds it.
CigarStore(t) ==
    /\ thr[t].pc = "store"
    /\ HasSlotIn(obj, SpareSlots)
    /\ LET h == thr[t].h
           c == NewHandleIn(obj, SpareSlots)
           s1 == [Now EXCEPT !.obj = [obj EXCEPT ![c] = [NoObj EXCEPT !.kind = "Cigar", !.st = "alive",
                                                                     !.pointer = thr[t].p, !.origin = "cigar"],
                                                 ![h].cigar = c]]
       IN CommitThr(Collect(s1, FALSE), Op("cigar.store", h, "", "ok", {}, "live"),
                    [thr EXCEPT ![t].pc = "return"])

\* "return self._cigar": the caller now holds the Cigar cached at this moment.
CigarReturn(t) ==
    /\ thr[t].pc = "return"
    /\ LET h == thr[t].h
           c == obj[h].cigar
       IN CommitThr([Now EXCEPT !.obj = [obj EXCEPT ![c].held = TRUE]],
                    [Op("cigar", h, "", "value", {}, "live") EXCEPT !.ret = c],
                    [thr EXCEPT ![t].pc = "done", ![t].ret = c])

\* ------------------------------------------------------- Cigar.decode
\* Text is a sequence of code points.  'MIDNSHP=X8':
BAM_CIGAR_STR == <<77, 73, 68, 78, 83, 72, 80, 61, 88, 56>>

\* str(n) of a non-negative int: its decimal digits, 48 being "0".
RECURSIVE str(_)
str(n) == IF n < 10 THEN <<48 + n>> ELSE str(n \div 10) \o <<48 + (n % 10)>>

\* An unsigned 32-bit element is the pair of its high and low 16 bits.
\* x >> 4
shr4(x) == (x[1] * 4096) + (x[2] \div 16)

\* x & 0xf
and0xf(x) == x[2] % 16

\* (an operation lookup without the try/except: the index wraps around)
cigar_op_wrapped(x) == BAM_CIGAR_STR[(and0xf(x) % Len(BAM_CIGAR_STR)) + 1]

\* "try: c = self.__BAM_CIGAR_STR[x&0xf]  except: c = 'M'": indexing a str past
\* its end raises IndexError, which the bare except turns into 'M' (77).
cigar_op(x) == IF and0xf(x) < Len(BAM_CIGAR_STR) THEN BAM_CIGAR_STR[and0xf(x) + 1] ELSE 77

\* _decode(x): "l = str(x>>4); ...; return l+c"
_decode(x) == str(shr4(x)) \o <<cigar_op(x)>>

\* ''.join([_decode(seq[i]) for i in range(len)])
RECURSIVE join_decode(_, _, _)
join_decode(mem, i, n) == IF i >= n THEN <<>> ELSE _decode(mem[i + 1]) \o join_decode(mem, i + 1, n)

\* Reading an element of a c_uint32 array yields its value as an unsigned
\* 32-bit int: both halves in 0..65535.
uint32(v) == <<v[1] % 65536, v[2] % 65536>>

\* Cigar.decode where platform.system() is system, on a native cigar whose seq
\* array holds mem and whose len field is n.  On Windows the text is built in
\* Python, reading seq[0..n-1]; elsewhere the native parasail_cigar_decode
\* builds it (its text is not modelled) and parasail_free releases it.
CigarDecode(systems, values) ==
    \E system \in systems, mem \in [1..MaxLen -> values], n \in 0..MaxLen :
        IF system = "Windows"
        THEN Commit(Now, [Op("decode", 0, system, "value", {}, "live") EXCEPT
                            !.key = mem, !.elem = n,
                            !.nreads = range(0, n, 1),
                            !.ret = Str(join_decode([i \in 1..MaxLen |-> uint32(mem[i])], 0, n))])
        ELSE Commit([Now EXCEPT !.calls = <<<<"parasail_cigar_decode", NULL>>, <<"parasail_free", NULL>>>>],
                    [Op("decode", 0, system, "native", {}, "live") EXCEPT !.key = mem, !.elem = n])

\* ------------------------------------------------------------- Sequences
\* sequences_from_file(filename): the file holds n records, each with a
\* sequence of m characters (sequences_t.l = n, every seqs[i].seq.l = m).
sequences_from_file(counts, lens) ==
    /\ HasSlot(obj)
    /\ \E p \in NativeReturns(native), n \in counts, m \in lens :
         Commit(Construct([Now EXCEPT !.nat = Alloc(native, p, "Sequences", FALSE, {}, n, m),
                                      !.calls = <<<<"parasail_sequences_from_file", NULL>>>>],
                          [NoObj EXCEPT !.kind = "Sequences", !.st = "alive", !.pointer = p,
                                        !.origin = "sequences_from_file", !.held = TRUE]),
                Op("sequences_from_file", NewHandle(obj), "", "ok", {}, "none"))

\* Index keys as Python values: int, bool (a subclass of int), float, str.
IntKeys == {IntKey(k) : k \in -(MaxLen + 1)..(MaxLen + 1)}

OtherKeys == {FloatKey(1), Str(<<97, 115, 100, 102>>)}

Keys == IntKeys \cup {BoolKey(1)} \cup OtherKeys

\* (a type test that lets a float through)
isinstance_number(key) == type(key) \in {"int", "bool", "float"}

\* isinstance(key, int)
isinstance_int(key) == type(key) \in {"int", "bool"}

\* What a read of a length field yields: the stored length, or any value when
\* the memory read is released or lies past the end of the array.
LengthRead(valid, stored) == IF valid THEN {stored} ELSE 0..MaxLen

\* "if key < 0: key = key + l"
Normalise(k, l) == IF k < 0 THEN k + l ELSE k

\* "if key < 0 or key > l: raise IndexError"
KeyRejected(k, l) == k < 0 \/ k > l

\* Sequences.__getitem__(key).  nreads lists what is read of the native
\* memory: the length field "l", then the element of the seqs array whose
\* address is taken.  The Sequence handed back wraps a pointer into the
\* array of the collection (same allocation, element elem) and holds no
\* reference to the Sequences object.
SequencesGetItem(keys, slots) ==
    \E h \in Alive(obj, "Sequences"), key \in keys :
      LET p == obj[h].pointer
          pst == PtrState(native, p)
      IN /\ obj[h].held
         /\ IF ~isinstance_int(key)
            THEN Commit(Now, [Op("Sequences[]", h, "", "TypeError", {}, pst) EXCEPT !.key = key])
            ELSE IF pst = "null"
            THEN Commit(Now, [Op("Sequences[]", h, "", "ValueError", {}, pst) EXCEPT !.key = key])
            ELSE \E l \in LengthRead(pst = "live", native[p].n) :
                   LET k == Normalise(val(key), l)
                   IN IF KeyRejected(k, l)
                      THEN Commit(Now, [Op("Sequences[]", h, "", "IndexError", {}, pst) EXCEPT
                                          !.key = key, !.nreads = <<"l">>])
                      ELSE /\ HasSlotIn(obj, slots)
                           /\ LET c == NewHandleIn(obj, slots)
                              IN Commit([Now EXCEPT !.obj = [obj EXCEPT ![c] =
                                           [NoObj EXCEPT !.kind = "Sequence", !.st = "alive",
                                                         !.pointer = p, !.origin = "Sequences[]",
                                                         !.held = TRUE, !.elem = k]]],
                                        [Op("Sequences[]", h, "", "value", {}, pst) EXCEPT
                                           !.key = key, !.nreads = <<"l", "seqs">>,
                                           !.ret = c, !.elem = k])

\* The element a Sequence points at can be read as long as the collection is
\* not released and the element lies inside the array.
ElementValid(nat, p, e) == PtrState(nat, p) = "live" /\ e < nat[p].n

\* Sequence.__getitem__(key): after the range test the whole character array
\* is read (seq.s is a c_char_p field: its read copies the bytes up to the
\* terminating NUL) and the copy is indexed, which raises IndexError itself
\* for an index that is not below its length.
SequenceGetItem(keys) ==
    \E h \in Alive(obj, "Sequence"), key \in keys :
      LET p == obj[h].pointer
          pst == PtrState(native, p)
          valid == ElementValid(native, p, obj[h].elem)
      IN /\ obj[h].held
         /\ IF ~isinstance_int(key)
            THEN Commit(Now, [Op("Sequence[]", h, "", "TypeError", {}, pst) EXCEPT !.key = key])
            ELSE \E l \in LengthRead(valid, native[p].m), sl \in LengthRead(valid, native[p].m) :
                   LET k == Normalise(val(key), l)
                   IN IF KeyRejected(k, l)
                      THEN /\ sl = l
                           /\ Commit(Now, [Op("Sequence[]", h, "", "IndexError", {}, pst) EXCEPT
                                             !.key = key, !.nreads = <<"seq.l">>])
                      ELSE Commit(Now, [Op("Sequence[]", h, "", IF k < sl THEN "value" ELSE "IndexError",
                                           {}, pst) EXCEPT
                                          !.key = key, !.nreads = <<"seq.l", "seq.s">>,
                                          !.elem = IF k < sl THEN k ELSE -1])

SequenceAccessors == {"len", "str", "name", "comment", "seq", "qual"}

\* len(), str() and the name, comment, seq and qual properties of a Sequence:
\* each reads one field of the element the Sequence points at.
ReadSequence ==
    \E h \in Alive(obj, "Sequence"), acc \in SequenceAccessors :
      LET p == obj[h].pointer
          pst == PtrState(native, p)
      IN /\ obj[h].held
         /\ Commit(Now, [Op("Sequence.read", h, acc, "value", {}, pst) EXCEPT
                           !.nreads = <<IF acc = "len" THEN "seq.l"
                                        ELSE IF acc = "str" THEN "seq.s"
                                        ELSE acc \o ".s">>,
                           !.elem = obj[h].elem])

\* ------------------------------------------------- duplicating a handle
\* No handle class defines __copy__ or __deepcopy__, so copy.copy(handle)
\* yields a second object with the same attributes: the same pointer, and
\* references to the same Matrix and cached Cigar.
CopyHandle ==
    /\ HasSlot(obj)
    /\ \E h \in Handles :
         /\ obj[h].st = "alive"
         /\ obj[h].held
         /\ Commit(Construct(Now, [obj[h] EXCEPT !.origin = "dup", !.gets = 0]),
                   Op("copy.copy", NewHandle(obj), "", "ok", {}, "none"))

\* ------------------------------------------------------- end of life
\* The caller drops its reference to h; every object that becomes
\* unreferenced is destroyed.
DropRef ==
    \E h \in Handles, ub \in BOOLEAN :
        /\ obj[h].st = "alive"
        /\ obj[h].held
        /\ (ub => \E g \in Handles : obj[g].st = "alive" /\ obj[g].pointer \in Ptrs
                                      /\ native[obj[g].pointer].st = "freed")
        /\ Commit(Collect([Now EXCEPT !.obj = [obj EXCEPT ![h].held = FALSE]], ub),
                  Op("del", h, "", "ok", {}, "none"))

\* The handle life cycle: every way to make, duplicate and drop a handle.
Next ==
    \/ MatrixFromString
    \/ MatrixFromPointer
    \/ matrix_create
    \/ MatrixCopy
    \/ MatrixSetValue(Handles, {0}, {0}, {0})
    \/ profile_create({As(1)}, ObjSlots)
    \/ Dispatch({"nw"}, {"score", "trace"}, {""}, {As(1)}, {1})
    \/ DispatchProfile({"nw"}, {"score", "trace"}, {"_scan_profile_64"}, {1})
    \/ ResultCigar(ObjSlots)
    \/ sequences_from_file({1}, {1})
    \/ CopyHandle
    \/ DropRef

Spec == Init /\ [][Next]_vars

\* The Result accessors: every detail mode, every pair of lengths.
NextResult ==
    \/ Dispatch({"nw"}, Modes, {""}, {As(n) : n \in Lens}, Lens)
    \/ ReadResult
    \/ DropRef

SpecResult == Init /\ [][NextResult]_vars

\* Result.cigar: Results of every detail mode, read any number of times.
NextCigar ==
    \/ Dispatch({"nw"}, Modes, {""}, {As(1)}, {1})
    \/ ResultCigar(Handles)
    \/ DropRef

SpecCigar == Init /\ [][NextCigar]_vars

\* The generated functions, called here for one algorithm (the three are
\* generated alike), in every detail mode and strategy.
NextDispatch ==
    \/ profile_create({As(1)}, ObjSlots)
    \/ Dispatch({"sw"}, Modes, PairStrategies, {As(1)}, {1})
    \/ DispatchProfile({"sw"}, Modes, ProfileStrategies, {1})

SpecDispatch == Init /\ [][NextDispatch]_vars

\* The alignment entry points: generated functions of both forms, nw_banded,
\* ssw and ssw_profile.
NextEntry ==
    \/ profile_create({As(1)}, ObjSlots)
    \/ Dispatch(Algs, Modes, {"", "_diag_8"}, {As(1)}, {1})
    \/ DispatchProfile(Algs, Modes, {"_striped_profile_sat"}, {1})
    \/ nw_banded
    \/ ssw
    \/ ssw_profile
    \/ ssw_init
    \/ DropRef

SpecEntry == Init /\ [][NextEntry]_vars

\* Profiles and the Results made through them, next to the direct calls:
\* queries with and without NUL, one that latin-1 cannot encode, every length.
Queries == Strs({NUL, 65}, Lens) \cup {Str(<<8364>>)}

NextProfile ==
    \/ profile_create(Queries, ObjSlots)
    \/ Dispatch({"nw"}, {"table", "trace"}, {"_striped_64"}, Queries, Lens)
    \/ DispatchProfile({"nw"}, {"table", "trace"}, {"_striped_profile_64"}, Lens)
    \/ ReadResult
    \/ DropRef

SpecProfile == Init /\ [][NextProfile]_vars

\* A Profile, the Matrix it was built from and the other handles of that Matrix.
NextKeep ==
    \/ matrix_create
    \/ MatrixFromPointer
    \/ profile_create({As(1)}, SpareSlots)
    \/ DropRef

SpecKeep == Init /\ [][NextKeep]_vars

\* Sequence files: collections of every size, every index key, every read
\* through a Sequence, and the end of life of collections and Sequences.
NextSequences ==
    \/ sequences_from_file(Lens, {MaxLen})
    \/ SequencesGetItem(Keys, ObjSlots)
    \/ SequenceGetItem(Keys)
    \/ ReadSequence
    \/ DropRef

SpecSequences == Init /\ [][NextSequences]_vars

\* Score table edits: every shape of key on created matrices.
Indices == 0..(size - 1)

Slices == {Slice(0, size, 0), Slice(1, size, 1), Slice(0, size, 2)}

Items == {IntKey(i) : i \in Indices} \cup Slices

ItemKeys ==
    {IntKey(i) : i \in Indices} \cup Slices
        \cup {Tuple(<<x, y>>) : x \in Items, y \in Items}
        \cup {List(<<IntKey(0), IntKey(1)>>), Tuple(<<IntKey(0)>>), Tuple(<<>>),
              List(<<IntKey(0), IntKey(1), IntKey(0)>>)}

NextMatrix ==
    \/ matrix_create
    \/ MatrixSetValue(Handles \ {BuiltinConst}, {0}, {size - 1}, {1})
    \/ MatrixSetItem(Handles \ {BuiltinConst}, ItemKeys, {1})

SpecMatrix == Init /\ [][NextMatrix]_vars

\* Dispatch calls of several threads on the built-in Matrix and on Profiles.
NextThreads ==
    \/ profile_create({As(1)}, ObjSlots)
    \/ \E t \in Threads : DispatchEnter(t, {"pair", "profile"})
    \/ \E t \in Threads : DispatchNative(t)
    \/ \E t \in Threads : DispatchWrap(t)

SpecThreads == Init /\ [][NextThreads]_vars

\* Reads of Result.cigar by several threads on one Result.
NextCigarThreads ==
    \/ Dispatch({"nw"}, {"score", "trace"}, {""}, {As(1)}, {1})
    \/ \E t \in Threads : CigarCheck(t)
    \/ \E t \in Threads : CigarTest(t)
    \/ \E t \in Threads : CigarGet(t)
    \/ \E t \in Threads : CigarStore(t)
    \/ \E t \in Threads : CigarReturn(t)

SpecCigarThreads == Init /\ [][NextCigarThreads]_vars

\* Decoding: encoded elements with the operation codes 0, 9, 10 and 15 and
\* lengths from 0 to the largest a 32-bit element holds.
CigarValues == {<<0, 0>>, <<0, 25>>, <<0, 26>>, <<0, 175>>, <<65535, 65535>>}

NextDecode == CigarDecode({"Windows", "Linux"}, CigarValues)

SpecDecode == Init /\ [][NextDecode]_vars

\* ------------------------------------------------- setup.py: the library
Systems == {"Linux", "Darwin", "Windows"}

\* get_libname(), where platform.system() is system
get_libname(system) ==
    IF system = "Darwin" THEN "libparasail.dylib"
    ELSE IF system = "Windows" THEN "parasail.dll"
    ELSE "libparasail.so"

LibNames == {get_libname(system) : system \in Systems}

\* (a test of the directory in place of the file)
exists_dir(st, libname) == st.pkgdir

\* os.path.exists(os.path.join("parasail", libname))
exists(st, libname) == st.pkgdir /\ libname \in st.files

\* shutil.copy(src, 'parasail'): into the directory parasail when it is one,
\* else to a file of that name.
copy(st, libname) ==
    [st EXCEPT !.copied = TRUE, !.files = IF st.pkgdir THEN st.files \cup {libname} ELSE st.files]

\* An exception leaves download_windows_dll or build_parasail and, uncaught,
\* prepare_shared_lib.
Raise(st, exc) == [st EXCEPT !.pc = "done", !.outcome = exc]

\* "for attempt in range(10)"
Attempts == 10

\* A response of github_api_json is <<kind, asset names>>: "error" (it raised),
\* "empty" (a falsy document), "noassets" (a document without the key
\* 'assets') or "assets".
\* (a test that forgets the key)
json_rejected_empty(resp) == resp[1] = "empty"

\* "if not data or 'assets' not in data: raise RuntimeError(...)"
json_rejected(resp) == resp[1] \in {"empty", "noassets"}

\* The second half of prepare_shared_lib: "if not os.path.exists(libpath):
\* raise RuntimeError(...)", else it returns.
SecondCheck(st) ==
    [st EXCEPT !.pc = "done", !.checked = TRUE,
              !.outcome = IF exists(st, get_libname(st.system)) THEN "return" ELSE "RuntimeError"]

\* prepare_shared_lib is called where platform.system() is system and the
\* directory parasail holds files (it is no directory when ~pkgdir).
prepare_shared_lib(systems, filesets) ==
    /\ setup.pc = "idle"
    /\ \E system \in systems, files \in filesets, pkgdir \in BOOLEAN :
         LET s0 == [setup EXCEPT !.system = system, !.pkgdir = pkgdir,
                                 !.files = IF pkgdir THEN files ELSE {},
                                 !.entry = IF pkgdir THEN files ELSE {}]
         IN setup' = IF ~exists(s0, get_libname(system))
                     THEN IF system = "Windows"
                          THEN [s0 EXCEPT !.pc = "json", !.attempted = "download"]
                          ELSE [s0 EXCEPT !.pc = "build", !.attempted = "build"]
                     ELSE SecondCheck(s0)
    /\ UNCHANGED <<native, freeCalls, obj, lastOp, table, thr>>

\* One pass of the first loop of download_windows_dll, with what follows the
\* loop when this pass ends it: the for-else raise after the last failure, or
\* the choice of the asset after a success.
DownloadJson(responses, bits) ==
    /\ setup.pc = "json"
    /\ Len(setup.jsonLog) < Attempts
    /\ \E resp \in responses, is_python_64bit \in bits :
         LET s1 == [setup EXCEPT !.jsonLog = Append(setup.jsonLog, resp)]
             search == IF is_python_64bit THEN "win64-v140" ELSE "win32-v140"
         IN setup' = IF resp[1] = "error" \/ json_rejected(resp)
                     THEN IF Len(s1.jsonLog) < Attempts THEN s1 ELSE Raise(s1, "RuntimeError")
                     ELSE IF search \in resp[2]
                          THEN [s1 EXCEPT !.pc = "fetch", !.asset = search]
                          ELSE Raise(s1, "RuntimeError")
    /\ UNCHANGED <<native, freeCalls, obj, lastOp, table, thr>>

\* One pass of the second loop: urlretrieve(asset, archive) raises or returns.
DownloadAsset(results) ==
    /\ setup.pc = "fetch"
    /\ Len(setup.assetLog) < Attempts
    /\ \E res \in results :
         LET s1 == [setup EXCEPT !.assetLog = Append(setup.assetLog, res)]
         IN setup' = IF res = "error"
                     THEN IF Len(s1.assetLog) < Attempts THEN s1 ELSE Raise(s1, "RuntimeError")
                     ELSE [s1 EXCEPT !.pc = "install"]
    /\ UNCHANGED <<native, freeCalls, obj, lastOp, table, thr>>

\* The end of download_windows_dll: unzip, find_file (None when the archive
\* lacks the library, and os.path.join(None, libname) raises) and shutil.copy.
DownloadInstall ==
    /\ setup.pc = "install"
    /\ \E unzipped \in BOOLEAN, found \in BOOLEAN, copies \in BOOLEAN :
         LET s1 == [setup EXCEPT !.unzipped = TRUE]
         IN setup' = IF ~unzipped THEN Raise(s1, "BadZipFile")
                     ELSE IF ~found THEN Raise(s1, "TypeError")
                     ELSE IF ~copies THEN Raise(s1, "IOError")
                     ELSE [copy(s1, get_libname(setup.system)) EXCEPT !.pc = "check"]
    /\ UNCHANGED <<native, freeCalls, obj, lastOp, table, thr>>

\* build_parasail(libname): the archive is fetched (urlretrieve may raise)
\* and unzipped, configure is found and run, make is run, and the library is
\* copied from .libs.
build_parasail ==
    /\ setup.pc = "build"
    /\ \E fetched \in BOOLEAN, configure \in {"none", "fails", "ok"}, make \in BOOLEAN, copies \in BOOLEAN :
         LET s1 == [setup EXCEPT !.unzipped = fetched]
         IN setup' = IF ~fetched THEN Raise(s1, "URLError")
                     ELSE IF configure # "ok" THEN Raise(s1, "RuntimeError")
                     ELSE IF ~make THEN Raise(s1, "RuntimeError")
                     ELSE IF ~copies THEN Raise(s1, "IOError")
                     ELSE [copy(s1, get_libname(setup.system)) EXCEPT !.pc = "check"]
    /\ UNCHANGED <<native, freeCalls, obj, lastOp, table, thr>>

\* prepare_shared_lib after the build or download has returned.
PrepareCheck ==
    /\ setup.pc = "check"
    /\ setup' = SecondCheck(setup)
    /\ UNCHANGED <<native, freeCalls, obj, lastOp, table, thr>>

\* Responses of the release query: an error, a document without 'assets', a
\* release with no asset and one with the 64-bit asset.
Responses == {<<"error", {}>>, <<"noassets", {}>>, <<"assets", {}>>, <<"assets", {"win64-v140"}>>}

EntryFiles == {{}} \cup {{n} : n \in LibNames}

NextSetup ==
    \/ prepare_shared_lib(Systems, EntryFiles)
    \/ DownloadJson(Responses, BOOLEAN)
    \/ DownloadAsset({"error", "ok"})
    \/ DownloadInstall
    \/ build_parasail
    \/ PrepareCheck

SpecSetup == Init /\ [][NextSetup]_vars

\* ================================================================ claims
Owning == {"Result", "Profile", "Cigar", "Sequences"}

Wrappers(p) == {h \in Handles : obj[h].st # "none" /\ obj[h].pointer = p}

CallsOf(calls, name, p) == {i \in DOMAIN calls : calls[i] = <<name, p>>}

\* C1: every native Result, Profile, Cigar and Sequences allocation a handle
\* wraps gets exactly one call of its free function, made when the handle
\* reaches end of life: no call while a handle wrapping it is alive, one call
\* once its handles are gone, never two.
C1_FreedExactlyOnce ==
    \A p \in Ptrs :
        (native[p].kind \in Owning /\ Wrappers(p) # {}) =>
            /\ freeCalls[p] <= 1
            /\ (\E h \in Wrappers(p) : obj[h].st = "alive") => freeCalls[p] = 0
            /\ (\A h \in Wrappers(p) : obj[h].st = "dead") => freeCalls[p] = 1

\* C2: a Matrix constant, and a Matrix looked up by a built-in name, wraps the
\* static table and is not owned; parasail_matrix_free is never called on that
\* table, whatever reads, writes, copies and destructions have happened.
BuiltinHandles == {h \in Handles : obj[h].kind = "Matrix" /\ obj[h].origin \in {"builtin", "lookup"}}

C2_BuiltinNeverFreed ==
    /\ freeCalls[BuiltinPtr] = 0
    /\ \A h \in BuiltinHandles :
          /\ obj[h].pointer = BuiltinPtr
          /\ ~MatrixDelFrees(native, obj[h].pointer, FALSE)

C2_Witness ==
    /\ lastOp.op = "del"
    /\ \E h \in BuiltinHandles : obj[h].st = "dead" /\ obj[h].origin = "lookup"
    /\ obj[BuiltinConst].st = "dead"
    /\ \E c \in Handles : obj[c].origin = "copy" /\ obj[c].pointer # NULL

\* C3: a Matrix made by copy() or matrix_create() owns its native matrix
\* (user_matrix is set while the handle lives, and nothing has freed it), and
\* once the handle is destroyed parasail_matrix_free has been called on that
\* native matrix exactly once.
Made == {h \in Handles : obj[h].kind = "Matrix" /\ obj[h].origin \in {"copy", "create"} /\ obj[h].pointer # NULL}

C3_MadeMatrixFreedOnce ==
    \A h \in Made :
        /\ obj[h].st = "alive" => native[obj[h].pointer].st = "live" /\ native[obj[h].pointer].user
        /\ obj[h].st = "dead" => freeCalls[obj[h].pointer] = 1

\* C4: no two live handle objects wrap the same native allocation.
C4_SingleOwner ==
    \A h, g \in Handles :
        (h # g /\ obj[h].st = "alive" /\ obj[g].st = "alive" /\ obj[h].pointer \in Ptrs)
            => obj[h].pointer # obj[g].pointer

\* C5: no handle wraps a NULL pointer: a native call that returns NULL makes
\* the binding call fail instead of returning a handle.
C5_NoNullHandle ==
    \A h \in Handles : obj[h].st # "none" => obj[h].pointer # NULL

\* C6: Matrix(name) for a name that is neither built-in nor a loadable file
\* raises ValueError, makes no handle and calls no parasail_matrix_free: the
\* step leaves the handles and the free counts as they were.
Unresolved(op) ==
    /\ op.op = "Matrix"
    /\ \/ op.arg = "missing"
       \/ op.arg = "file" /\ op.pst = "null"

C6_UnknownNameRaises ==
    [][Unresolved(lastOp') =>
          /\ lastOp'.outcome = "ValueError"
          /\ lastOp'.h = 0
          /\ obj' = obj
          /\ freeCalls' = freeCalls
          /\ \A i \in DOMAIN lastOp'.calls : lastOp'.calls[i][1] # "parasail_matrix_free"]_vars

C6_Witness ==
    /\ lastOp.op = "Matrix" /\ lastOp.arg = "missing" /\ lastOp.outcome = "ValueError"
    /\ \E h \in Handles : obj[h].origin = "file"

\* C7: on a score-only Result (a native result with none of the stats, table,
\* rowcol and trace bits) matches, similar, length and every table, row and
\* column property raise AttributeError without calling the native get
\* accessor, and score, end_query and end_ref return a value.
Gated == Scalars \cup Tables \cup Rows \cup Cols

ScoreOnlyRead == lastOp.op = "read" /\ lastOp.pst = "live" /\ lastOp.flags \cap Caps = {}

C7_ScoreOnlyGated ==
    ScoreOnlyRead =>
        /\ \A acc \in Gated :
              /\ lastOp.reads[acc].outcome = "AttributeError"
              /\ CallsOf(lastOp.reads[acc].calls, "parasail_result_get", obj[lastOp.h].pointer) = {}
        /\ \A acc \in Plain : lastOp.reads[acc].outcome = "value"

C7_Witness == ScoreOnlyRead /\ lastOp.flags = {}

\* C8: every property other than score, end_query, end_ref and saturated
\* returns data only when the native sub-buffer it reads was populated for the
\* configuration, and raises AttributeError otherwise: the stats scalars need
\* stats, score_table a table, the stats tables stats and a table, score_row
\* and score_col row/col output, the stats rows and columns stats and row/col.
Populated(acc, flags) ==
    CASE acc \in Scalars -> "stats" \in flags
      [] acc = "score_table" -> "table" \in flags
      [] acc \in StatsTables -> "stats" \in flags /\ "table" \in flags
      [] acc \in {"score_row", "score_col"} -> "rowcol" \in flags
      [] OTHER -> "stats" \in flags /\ "rowcol" \in flags

C8_ReadsOnlyPopulated ==
    (lastOp.op = "read" /\ lastOp.pst = "live") =>
        \A acc \in Gated :
            lastOp.reads[acc].outcome = IF Populated(acc, lastOp.flags) THEN "value" ELSE "AttributeError"

\* C9: saturated is readable on every Result whatever its capability bits: it
\* never raises AttributeError; and a Result that is saturated still returns
\* score, end_query and end_ref.
C9_SaturatedAlwaysReadable ==
    lastOp.op = "read" =>
        /\ lastOp.reads["saturated"].outcome # "AttributeError"
        /\ lastOp.pst = "live" =>
              /\ lastOp.reads["saturated"].outcome = "value"
              /\ lastOp.reads["saturated"].calls = <<<<"parasail_result_is_saturated", obj[lastOp.h].pointer>>>>
              /\ \A acc \in Plain : lastOp.reads[acc].outcome = "value"

C9_Witness ==
    /\ lastOp.op = "read" /\ lastOp.pst = "live"
    /\ lastOp.flags = {"saturated"}

\* C10: every array view of a Result has the extents captured at dispatch,
\* which never exceed the lengths the native call was given: a table is
\* (len_query, len_ref), a row has len_ref elements, a column len_query, and
\* the view spans exactly that many elements.
Extent(acc, lq, lr) ==
    IF acc \in Tables THEN <<lq, lr>> ELSE IF acc \in Rows THEN <<lr>> ELSE <<lq>>

Count(acc, lq, lr) ==
    IF acc \in Tables THEN lq * lr ELSE IF acc \in Rows THEN lr ELSE lq

C10_ViewExtents ==
    (lastOp.op = "read" /\ lastOp.pst = "live") =>
        LET r == obj[lastOp.h]
            a == native[r.pointer]
        IN \A acc \in Tables \cup Rows \cup Cols :
             lastOp.reads[acc].outcome = "value" =>
                 /\ r.len_query <= a.n /\ r.len_ref <= a.m
                 /\ lastOp.reads[acc].shape = Extent(acc, r.len_query, r.len_ref)
                 /\ lastOp.reads[acc].nbytes = itemsize * Count(acc, r.len_query, r.len_ref)

C10_Witness ==
    /\ lastOp.op = "read" /\ lastOp.pst = "live"
    /\ obj[lastOp.h].len_query # obj[lastOp.h].len_ref
    /\ lastOp.reads["score_row"].shape = <<obj[lastOp.h].len_ref>>
    /\ lastOp.reads["length_col"].shape = <<obj[lastOp.h].len_query>>

\* C11: for a trace-capable Result every read of Result.cigar that returns
\* hands back the one Cigar object the Result caches: once the cache is set it
\* never changes, and parasail_result_get_cigar is called at most once through
\* that Result over its whole lifetime.
C11_CigarCachedOnce ==
    [][\A h \in Handles :
          (obj[h].kind = "Result" /\ obj[h].st = "alive" /\ obj'[h].st = "alive") =>
              /\ obj'[h].gets <= 1
              /\ obj[h].cigar # 0 => (obj'[h].cigar = obj[h].cigar /\ obj'[h].gets = obj[h].gets)
              /\ (lastOp'.op = "cigar" /\ lastOp'.h = h /\ lastOp'.outcome = "value") =>
                     (lastOp'.ret # 0 /\ lastOp'.ret = obj'[h].cigar)]_vars

C11_Witness ==
    /\ lastOp.op = "cigar" /\ lastOp.outcome = "value" /\ lastOp.pst = "live"
    /\ obj[lastOp.h].gets = 1
    /\ lastOp.calls = <<<<"parasail_result_is_trace", obj[lastOp.h].pointer>>>>

\* C12: reading Result.cigar on a Result whose is-trace bit is unset raises
\* AttributeError, calls no parasail_result_get_cigar and leaves the cache
\* empty; parasail_result_get_cigar is called only when the bit is set.
C12_NoTraceNoCigar ==
    (lastOp.op = "cigar" /\ lastOp.pst = "live") =>
        /\ ~is_trace(lastOp.flags) =>
              /\ lastOp.outcome = "AttributeError"
              /\ CallsOf(lastOp.calls, "parasail_result_get_cigar", obj[lastOp.h].pointer) = {}
              /\ obj[lastOp.h].cigar = 0
              /\ obj[lastOp.h].gets = 0
        /\ CallsOf(lastOp.calls, "parasail_result_get_cigar", obj[lastOp.h].pointer) # {} =>
              is_trace(lastOp.flags)

C12_Witness ==
    /\ lastOp.op = "cigar" /\ lastOp.pst = "live" /\ lastOp.outcome = "AttributeError"
    /\ lastOp.flags = {"stats", "table"}
    /\ lastOp.calls = <<<<"parasail_result_is_trace", obj[lastOp.h].pointer>>>>

\* C13: the dispatch mapping is total and one-to-one: every combination of
\* algorithm, detail mode and strategy (scalar, scalar scan, the three
\* vectorised strategies in five widths, the two profile strategies in five
\* widths) has exactly one dispatch function, named by concatenating the axis
\* tokens; the function calls parasail_<its name>, once, and no two functions
\* call the same native symbol.
ClaimWidths == {"_64", "_32", "_16", "_8", "_sat"}

ClaimStrategies ==
    {"", "_scan"} \cup {st \o w : st \in {"_scan", "_striped", "_diag"}, w \in ClaimWidths}
                 \cup {st \o "_profile" \o w : st \in {"_scan", "_striped"}, w \in ClaimWidths}

Combos ==
    {"nw", "sg", "sw"}
      \X {"", "_table", "_rowcol", "_trace", "_stats", "_stats_table", "_stats_rowcol"}
      \X ClaimStrategies

ComboName(c) == c[1] \o c[2] \o c[3]

GeneratedName(g) == DispatchFn(g[1], g[2], g[3], "").name

TableSize == Cardinality(Generated)

TableOneToOne ==
    /\ {GeneratedName(g) : g \in Generated} = {ComboName(c) : c \in Combos}
    /\ Cardinality({GeneratedName(g) : g \in Generated}) = Cardinality(Combos)
    /\ TableSize = Cardinality(Combos)
    /\ \A g \in Generated : DispatchFn(g[1], g[2], g[3], "").symbol = "parasail_" \o GeneratedName(g)
    /\ Cardinality({DispatchFn(g[1], g[2], g[3], "").symbol : g \in Generated}) = TableSize

C13_DispatchTotalOneToOne ==
    /\ TableOneToOne
    /\ (lastOp.op \in {"dispatch", "dispatch_profile"} /\ lastOp.outcome = "ok") =>
          /\ lastOp.name \in {ComboName(c) : c \in Combos}
          /\ Len(lastOp.calls) = 1
          /\ lastOp.calls[1][1] = "parasail_" \o lastOp.name

C13_Witness ==
    /\ lastOp.op = "dispatch_profile" /\ lastOp.outcome = "ok"
    /\ lastOp.name = "sw_stats_rowcol_striped_profile_sat"
    /\ lastOp.calls = <<<<"parasail_sw_stats_rowcol_striped_profile_sat", obj[2].pointer>>>>
    /\ TableSize = 567

\* C14 (as stated): every alignment entry point hands its native symbol
\* either (query bytes, query length, reference bytes, reference length, gap
\* open, gap extend, Matrix) or (Profile, reference bytes, reference length,
\* gap open, gap extend), and nothing else.
AlignmentOps == {"dispatch", "dispatch_profile", "nw_banded", "ssw", "ssw_profile"}

Marshalled == lastOp.op \in AlignmentOps /\ lastOp.outcome \in {"ok", "None"}

SequencePairShape == <<"b(s1)", "len(s1)", "b(s2)", "len(s2)", "open", "extend", "matrix">>

ProfileShape == <<"profile", "b(s2)", "len(s2)", "open", "extend">>

C14_TwoShapes ==
    Marshalled => lastOp.call.native.args \in {SequencePairShape, ProfileShape}

\* C14 (amended): every alignment entry point other than nw_banded uses one
\* of the two shapes (the sequence-pair functions and ssw the first, the
\* profile functions and ssw_profile the second); nw_banded uses the
\* sequence-pair shape with the band width k between gap extend and the Matrix.
C14_TwoShapesButBanded ==
    Marshalled =>
        CASE lastOp.op = "nw_banded" ->
               lastOp.call.native.args = SubSeq(SequencePairShape, 1, 6) \o <<"k", "matrix">>
          [] lastOp.op \in {"dispatch", "ssw"} -> lastOp.call.native.args = SequencePairShape
          [] OTHER -> lastOp.call.native.args = ProfileShape

C14_Witness ==
    /\ lastOp.op = "nw_banded" /\ lastOp.outcome = "ok"
    /\ lastOp.calls = <<<<"parasail_nw_banded", BuiltinPtr>>>>
    /\ Len(lastOp.call.native.args) = 8
    /\ \E h \in Handles : obj[h].kind = "SSWResult"

\* C15: every dispatch function constructs its Result with len_query equal to
\* the query length the native call worked on (len(s1); for the profile form
\* the length the Profile was created with) and len_ref equal to len(s2); a
\* function of a trace mode also passes query, reference and Matrix, so a
\* Result whose is-trace flag is set has all three.
Dispatching == lastOp.op \in {"dispatch", "dispatch_profile"} /\ lastOp.outcome = "ok"

C15_LengthsThreaded ==
    Dispatching =>
        LET r == obj[lastOp.h]
        IN /\ r.len_query = lastOp.call.native.s1Len
           /\ r.len_ref = lastOp.call.native.s2Len
           /\ (r.pointer # NULL /\ is_trace(native[r.pointer].flags)) =>
                 /\ r.seqs /\ r.matrix # 0
                 /\ lastOp.call.result.query # None /\ lastOp.call.result.ref # None

\* C16: a profile dispatch function called with a Profile built from s1 and a
\* Matrix, and s2, hands the native library the inputs the sequence-pair
\* function gets from s1, s2 and that Matrix, and constructs its Result with
\* the same len_query, len_ref, query, reference and matrix.
SameInputs(x, y) ==
    /\ x.s1 = y.s1 /\ x.s1Len = y.s1Len /\ x.s2 = y.s2 /\ x.s2Len = y.s2Len /\ x.matrix = y.matrix

C16_ProfileEqualsDirect ==
    (lastOp.op = "dispatch_profile" /\ lastOp.outcome = "ok") =>
        LET prof == obj[lastOp.call.native.profile]
            direct == PairCall(lastOp.arg = "trace", s(prof.s1b), As(lastOp.call.native.s2Len), prof.matrix)
        IN /\ SameInputs(lastOp.call.native, direct.native)
           /\ lastOp.call.result = direct.result

\* C17: for every Profile built from an owned Matrix, parasail_matrix_free is
\* never called on that Matrix before parasail_profile_free is called on the
\* Profile: not while the Profile lives, and in the step that destroys both
\* the Profile is freed first.
OwnedMatrixOf(h) == obj[obj[h].matrix].pointer \in Ptrs

C17_MatrixOutlivesProfile ==
    [][\A h \in Handles :
          (obj[h].kind = "Profile" /\ obj[h].st = "alive" /\ OwnedMatrixOf(h)) =>
              LET pm == obj[obj[h].matrix].pointer
                  pp == obj[h].pointer
                  frees(name, q) == CallsOf(lastOp'.calls, name, q)
              IN /\ freeCalls[pm] = 0
                 /\ obj'[h].st = "alive" => freeCalls'[pm] = 0
                 /\ obj'[h].st = "dead" =>
                       /\ frees("parasail_profile_free", pp) # {}
                       /\ \A i \in frees("parasail_matrix_free", pm) :
                             \E j \in frees("parasail_profile_free", pp) : j < i]_vars


\* ------------------------------------------------ Sequences and Sequence
IndexOps == {"Sequences[]", "Sequence[]"}

\* The length of what the last index operation indexed: the number of
\* records of the collection, or the number of characters of the record.
IndexedLength ==
    IF lastOp.op = "Sequences[]" THEN native[obj[lastOp.h].pointer].n
    ELSE native[obj[lastOp.h].pointer].m

\* The last index operation was applied to a collection that exists, or to a
\* Sequence over one of its records.
IndexedExists ==
    /\ lastOp.pst = "live"
    /\ lastOp.op = "Sequence[]" => obj[lastOp.h].elem < native[obj[lastOp.h].pointer].n

\* C18: indexing a Sequences collection of length n (a Sequence of length m)
\* with an integer key returns an element only for a key in [-n, n) ([-m, m)),
\* a negative key k addressing element k + n; every other integer key,
\* key == n and key < -n included, raises IndexError and reads nothing of the
\* native array.
C18_IndexInRange ==
    (lastOp.op \in IndexOps /\ type(lastOp.key) \in {"int", "bool"} /\ IndexedExists)
        => LET k == val(lastOp.key)
               n == IndexedLength
           IN IF -n <= k /\ k < n
              THEN /\ lastOp.outcome = "value"
                   /\ lastOp.elem = (IF k < 0 THEN k + n ELSE k)
              ELSE /\ lastOp.outcome = "IndexError"
                   /\ \A i \in DOMAIN lastOp.nreads : lastOp.nreads[i] \notin {"seqs", "seq.s"}

\* C19: indexing a Sequences collection or a Sequence with a key that is not
\* an integer raises TypeError and reads nothing of the native memory.
C19_NonIntTypeError ==
    (lastOp.op \in IndexOps /\ type(lastOp.key) \notin {"int", "bool"})
        => lastOp.outcome = "TypeError" /\ lastOp.nreads = <<>> /\ lastOp.calls = <<>>

C19_Witness ==
    /\ lastOp.op = "Sequence[]"
    /\ type(lastOp.key) = "str"
    /\ lastOp.outcome = "TypeError"
    /\ lastOp.pst = "live"
    /\ \E h \in Alive(obj, "Sequences") : obj[h].pointer = obj[lastOp.h].pointer

\* C20: a Sequence is a non-owning view: destroying a Sequence calls no
\* native free function, and nothing is read through a Sequence once
\* parasail_sequences_free was called on the collection it was taken from.
C20_SequenceView ==
    /\ (lastOp.op = "del" /\ obj[lastOp.h].kind = "Sequence") => lastOp.calls = <<>>
    /\ (lastOp.op \in {"Sequence[]", "Sequence.read"} /\ lastOp.nreads # <<>>)
           => lastOp.pst # "freed"


\* ---------------------------------------------------------- Matrix edits
WriteOps == {"set_value", "setitem"}

\* The indices a slice selects among 0..size-1.
InSlice(sl) ==
    LET st == IF val(sl)[3] = 0 THEN 1 ELSE val(sl)[3]
    IN {i \in Indices : val(sl)[1] <= i /\ i < val(sl)[2] /\ (i - val(sl)[1]) % st = 0}

Selected(x) == IF type(x) = "slice" THEN InSlice(x) ELSE {val(x)}

\* The cells a key of a supported shape addresses.
Addressed(key) ==
    IF type(key) \in {"list", "tuple"}
    THEN Selected(val(key)[1]) \X Selected(val(key)[2])
    ELSE Selected(key) \X Indices

\* C21: set_value and __setitem__ write only through
\* parasail_matrix_set_value on the handle's own matrix; a key of a supported
\* shape (int, pair of int or slice, single slice) writes exactly the cells
\* it addresses with the given value; a key sequence of fewer or more than
\* two elements raises IndexError and writes nothing.
C21_WritesAddressedCells ==
    lastOp.op \in WriteOps =>
        /\ Len(lastOp.calls) = Len(lastOp.writes)
        /\ \A i \in DOMAIN lastOp.calls :
               lastOp.calls[i] = <<"parasail_matrix_set_value", obj[lastOp.h].pointer>>
        /\ IF type(lastOp.key) \in {"list", "tuple"} /\ Len(val(lastOp.key)) # 2
           THEN lastOp.outcome = "IndexError" /\ lastOp.writes = <<>>
           ELSE /\ lastOp.outcome = "ok"
                /\ {lastOp.writes[i] : i \in DOMAIN lastOp.writes} = Addressed(lastOp.key)
                /\ (lastOp.pst = "live" /\ obj[lastOp.h].pointer \in Ptrs)
                       => \A c \in Addressed(lastOp.key) : table[obj[lastOp.h].pointer][c] = lastOp.ret

\* What a read of the ownership status of the matrix at p can yield.
OwnedRead(nat, p) == {user_matrix(nat, p, ub) : ub \in BOOLEAN}

\* C23: the ownership status of a Matrix handle is fixed when the handle is
\* constructed: no operation changes what a living handle reads as its
\* status, and a handle that is destroyed frees its matrix exactly when that
\* status says it is owned.
C23_OwnershipFixed ==
    [][\A h \in Handles :
          (obj[h].kind = "Matrix" /\ obj[h].st = "alive" /\ obj[h].pointer # NULL) =>
              /\ obj'[h].st = "alive" =>
                     OwnedRead(native', obj[h].pointer) = OwnedRead(native, obj[h].pointer)
              /\ obj'[h].st = "dead" =>
                     /\ OwnedRead(native, obj[h].pointer) = {TRUE}
                            => freeCalls'[obj[h].pointer] > freeCalls[obj[h].pointer]
                     /\ OwnedRead(native, obj[h].pointer) = {FALSE}
                            => freeCalls'[obj[h].pointer] = freeCalls[obj[h].pointer]]_vars

\* ------------------------------------------------- concurrent dispatch
Returned(th) == {u \in Threads : th[u].pc = "done"}

\* C24: under every interleaving of the dispatch calls of several threads, no
\* step of a dispatch call changes a Matrix, a Profile, a score table or the
\* free-call counts, and every call returns a new Result owning a native
\* result allocation that no other Result owns.
C24_DispatchOnlyReads ==
    [][thr' # thr =>
         /\ table' = table
         /\ freeCalls' = freeCalls
         /\ \A h \in Handles :
              (obj[h].st = "alive" /\ obj[h].kind \in {"Matrix", "Profile"}) =>
                  /\ obj'[h] = obj[h]
                  /\ obj[h].pointer \in Ptrs => native'[obj[h].pointer] = native[obj[h].pointer]
         /\ \A u \in Returned(thr') :
              LET r == obj'[thr'[u].ret]
              IN /\ r.kind = "Result" /\ r.st = "alive"
                 /\ r.pointer \in Ptrs
                 /\ native'[r.pointer].kind = "Result" /\ native'[r.pointer].st = "live"
                 /\ \A w \in Returned(thr') \ {u} :
                        thr'[w].ret # thr'[u].ret /\ obj'[thr'[w].ret].pointer # r.pointer]_vars

\* C25: ssw_init returns a Profile handle wrapping the native profile that
\* parasail_ssw_init allocated, so no native profile is live without a handle
\* that owns it (and will release it).
C25_SswInitOwned ==
    /\ (lastOp.op = "ssw_init" /\ lastOp.p # NULL) =>
           /\ lastOp.outcome = "ok"
           /\ obj[lastOp.h].kind = "Profile" /\ obj[lastOp.h].pointer = lastOp.p
    /\ \A p \in Ptrs :
           (native[p].kind = "Profile" /\ native[p].st = "live") =>
               \E h \in Alive(obj, "Profile") : obj[h].pointer = p

\* C26: when several threads read Result.cigar on one trace-capable Result,
\* under every interleaving parasail_result_get_cigar is called at most once
\* through that Result and all the reads return the same Cigar object.
C26_ConcurrentCigarOnce ==
    /\ \A h \in Alive(obj, "Result") : obj[h].gets <= 1
    /\ \A t \in Threads, u \in Threads :
           (thr[t].pc = "done" /\ thr[u].pc = "done" /\ thr[t].op = "cigar" /\ thr[u].op = "cigar"
                /\ thr[t].h = thr[u].h)
               => thr[t].ret = thr[u].ret

\* ---------------------------------------------------------- Matrix(name)
BuiltinNames == {"blosum62", "pam10"}

ExistingFiles == {"pam10", "file"}

FromFileCalls == {i \in DOMAIN lastOp.calls : lastOp.calls[i][1] = "parasail_matrix_from_file"}

\* C27: Matrix(name) asks parasail_matrix_lookup first, and a built-in name
\* wins over a file of the same name; parasail_matrix_from_file is called
\* only after a lookup that returned null and only for an existing file; a
\* name that is neither raises ValueError without that call.
C27_LookupBeforeFile ==
    (lastOp.op = "Matrix" /\ lastOp.arg \in MatrixNames) =>
        /\ lastOp.calls # <<>> /\ lastOp.calls[1][1] = "parasail_matrix_lookup"
        /\ lastOp.arg \in BuiltinNames =>
               /\ FromFileCalls = {}
               /\ lastOp.outcome = "ok" /\ obj[lastOp.h].pointer = BuiltinPtr
        /\ FromFileCalls # {} =>
               /\ FromFileCalls = {2}
               /\ lastOp.arg \notin BuiltinNames /\ lastOp.arg \in ExistingFiles
        /\ (lastOp.arg \notin BuiltinNames /\ lastOp.arg \notin ExistingFiles) =>
               lastOp.outcome = "ValueError" /\ FromFileCalls = {}

C27_Witness ==
    /\ lastOp.op = "Matrix" /\ lastOp.arg = "pam10"
    /\ lastOp.outcome = "ok"
    /\ obj[lastOp.h].pointer = BuiltinPtr
    /\ Len(lastOp.calls) = 1

\* --------------------------------------------------------- Cigar.decode
\* The decimal text of n, most significant digit first.
RECURSIVE DigitCount(_)
DigitCount(n) == IF n < 10 THEN 1 ELSE 1 + DigitCount(n \div 10)

RECURSIVE Pow10(_)
Pow10(k) == IF k = 0 THEN 1 ELSE 10 * Pow10(k - 1)

DecimalText(n) == [i \in 1..DigitCount(n) |-> 48 + ((n \div Pow10(DigitCount(n) - i)) % 10)]

\* The character of an operation code: index code of 'MIDNSHP=X8', 'M' for
\* the codes 10 to 15.
OpChar(code) ==
    CASE code = 0 -> 77 [] code = 1 -> 73 [] code = 2 -> 68 [] code = 3 -> 78 [] code = 4 -> 83
      [] code = 5 -> 72 [] code = 6 -> 80 [] code = 7 -> 61 [] code = 8 -> 88 [] code = 9 -> 56
      [] OTHER -> 77

\* The upper 28 bits and the lower 4 bits of an element (high, low halves).
OpCode(x) == x[2] - (16 * (x[2] \div 16))

RunLength(x) == (x[1] * 4096) + ((x[2] - OpCode(x)) \div 16)

RECURSIVE Concat(_)
Concat(ss) == IF ss = <<>> THEN <<>> ELSE Head(ss) \o Concat(Tail(ss))

\* C28: without native decoding, Cigar.decode returns the concatenation, for
\* the len encoded elements in order, of the decimal text of x >> 4 and the
\* operation character of x & 0xf ('M' for the codes 10 to 15); it reads
\* exactly the elements 0..len-1 and fails on no 32-bit value.
C28_DecodeText ==
    (lastOp.op = "decode" /\ lastOp.arg = "Windows") =>
        /\ lastOp.outcome = "value"
        /\ lastOp.nreads = [i \in 1..lastOp.elem |-> i - 1]
        /\ lastOp.ret = Str(Concat([i \in 1..lastOp.elem |->
                                DecimalText(RunLength(lastOp.key[i])) \o <<OpChar(OpCode(lastOp.key[i]))>>]))

C28_Witness ==
    /\ lastOp.op = "decode" /\ lastOp.arg = "Windows"
    /\ lastOp.elem = MaxLen
    /\ lastOp.key[1] = <<65535, 65535>> /\ lastOp.key[MaxLen] = <<0, 26>>
    /\ lastOp.outcome = "value"

\* -------------------------------------------------------------- setup.py
JsonSucceeded == setup.jsonLog # <<>> /\ setup.jsonLog[Len(setup.jsonLog)][1] = "assets"

AssetSucceeded == setup.assetLog # <<>> /\ setup.assetLog[Len(setup.assetLog)] = "ok"

\* C29: download_windows_dll makes at most 10 attempts at the release JSON and
\* at most 10 at the asset; only the last attempt of a loop can be a success,
\* and a success ends the loop; a response without 'assets' is a failure (the
\* loop goes on, and nothing is fetched on its strength); after 10 failures
\* of a loop the function has raised RuntimeError with nothing unzipped or
\* copied.
C29_DownloadRetries ==
    /\ Len(setup.jsonLog) <= 10 /\ Len(setup.assetLog) <= 10
    /\ \A i \in 1..(Len(setup.jsonLog) - 1) : setup.jsonLog[i][1] # "assets"
    /\ \A i \in 1..(Len(setup.assetLog) - 1) : setup.assetLog[i] # "ok"
    /\ JsonSucceeded => setup.pc # "json"
    /\ AssetSucceeded => setup.pc # "fetch"
    /\ (setup.jsonLog # <<>> /\ ~JsonSucceeded) =>
          /\ setup.assetLog = <<>> /\ ~setup.unzipped /\ ~setup.copied
          /\ IF Len(setup.jsonLog) < 10 THEN setup.pc = "json"
             ELSE setup.pc = "done" /\ setup.outcome = "RuntimeError"
    /\ (setup.assetLog # <<>> /\ ~AssetSucceeded) =>
          /\ ~setup.unzipped /\ ~setup.copied
          /\ IF Len(setup.assetLog) < 10 THEN setup.pc = "fetch"
             ELSE setup.pc = "done" /\ setup.outcome = "RuntimeError"

C29_Witness ==
    /\ Len(setup.jsonLog) = 10 /\ setup.jsonLog[9][1] = "noassets" /\ JsonSucceeded
    /\ Len(setup.assetLog) = 10 /\ ~AssetSucceeded
    /\ setup.pc = "done" /\ setup.outcome = "RuntimeError"

\* The library file name of a platform.
PlatformLib(system) ==
    CASE system = "Windows" -> "parasail.dll"
      [] system = "Darwin" -> "libparasail.dylib"
      [] OTHER -> "libparasail.so"

====
